---------------------------- MODULE Spec2Model ----------------------------
(***************************************************************************)
(* Format-element engine of zetasql/public/functions/cast_date_time.cc:    *)
(* the tokenizer (GetDateTimeFormatElements), the validators and the cast  *)
(* entry points that call them.                                            *)
(*                                                                         *)
(* A string is a sequence of bytes: an ASCII byte is the one-character      *)
(* string, a byte above 0x7F is named by its hexadecimal value ("0xC2").   *)
(* A Status is a record [code, msg] whose msg is the sequence of the       *)
(* pieces streamed into the error message.  Instants and civil times are   *)
(* taken in the UTC zone and are records of civil fields.                  *)
(***************************************************************************)
EXTENDS Integers, Sequences, FiniteSets, TLC

VARIABLES
    entry,            \* the entry point that was called
    format_string,    \* its format_string argument
    out_type,         \* its out_type argument ("none" when it has none)
    pc,               \* position inside the entry point
    processed_len,    \* GetDateTimeFormatElements: processed_len
    format_elements,  \* GetDateTimeFormatElements: format_elements
    tokenizer_status, \* status of what GetDateTimeFormatElements returned (NoStatus before)
    status,           \* the absl::Status the call has returned (NoStatus before)
    overload,         \* which overload of the entry point was called
    timestamp_string, \* CastStringToTimestamp: timestamp_string
    timezone_string,  \* the zone name argument of the overloads that take one
    cs_now,           \* default_timezone.At(current_timestamp).cs
    base_time,        \* base_time: the instant a CastFormat*ToString call formats, and
                      \* the local of the int64_t ParseTimeWithFormatElements
    processed_format_element_count, \* ParseTimeWithFormatElements; in the formatter,
                      \* the number of elements its range-for has been through
    timestamp_str_parsed_length,    \* ParseTimeWithFormatElements
    year,             \* ParseTimeWithFormatElements: year
    month,            \* ParseTimeWithFormatElements: month
    mday,             \* ParseTimeWithFormatElements: mday
    error_in_parsing, \* ParseTimeWithFormatElements
    timestamp,        \* the caller's output of CastStringToTimestamp
    updated_format_string, \* FromCastFormatTimestampToStringInternal
    out               \* the caller's output of CastFormat*ToString

\* The arguments and locals of the parse and format phases.
cast_vars == <<overload, timestamp_string, timezone_string, cs_now, base_time,
               processed_format_element_count, timestamp_str_parsed_length, year,
               month, mday, error_in_parsing, timestamp, updated_format_string, out>>

vars == <<entry, format_string, out_type, pc, processed_len, format_elements,
          tokenizer_status, status, cast_vars>>

-----------------------------------------------------------------------------
(* Bytes and the absl::ascii_* helpers.                                    *)

LowerLetters ==
    <<"a","b","c","d","e","f","g","h","i","j","k","l","m",
      "n","o","p","q","r","s","t","u","v","w","x","y","z">>

UpperLetters ==
    <<"A","B","C","D","E","F","G","H","I","J","K","L","M",
      "N","O","P","Q","R","S","T","U","V","W","X","Y","Z">>

Digits == <<"0","1","2","3","4","5","6","7","8","9">>

InSeq(c, s) == \E i \in 1..Len(s) : s[i] = c

IndexIn(c, s) == CHOOSE i \in 1..Len(s) : s[i] = c

ascii_islower(c) == InSeq(c, LowerLetters)

ascii_isupper(c) == InSeq(c, UpperLetters)

ascii_isalpha(c) == ascii_islower(c) \/ ascii_isupper(c)

ascii_toupper(c) == IF ascii_islower(c) THEN UpperLetters[IndexIn(c, LowerLetters)] ELSE c

AsciiStrToUpper(s) == [i \in 1..Len(s) |-> ascii_toupper(s[i])]

\* string_view::substr(pos): the suffix that starts at 0-based offset pos.
Substr(s, pos) == SubSeq(s, pos + 1, Len(s))

\* string_view::substr(pos, n): at most n bytes from 0-based offset pos.
SubstrN(s, pos, n) ==
    SubSeq(s, pos + 1, IF pos + n < Len(s) THEN pos + n ELSE Len(s))

StartsWith(s, prefix) ==
    /\ Len(prefix) <= Len(s)
    /\ \A i \in 1..Len(prefix) : s[i] = prefix[i]

RECURSIVE DigitsValue(_)
DigitsValue(s) ==
    IF s = <<>> THEN 0
    ELSE 10 * DigitsValue(SubSeq(s, 1, Len(s) - 1)) + (IndexIn(s[Len(s)], Digits) - 1)

\* absl::SimpleAtoi on the unsigned decimal strings the tokenizer hands it.
SimpleAtoi(s) ==
    IF s # <<>> /\ \A i \in 1..Len(s) : InSeq(s[i], Digits)
    THEN [ok |-> TRUE, value |-> DigitsValue(s)]
    ELSE [ok |-> FALSE, value |-> 0]

-----------------------------------------------------------------------------
(* Status values.                                                          *)

NoStatus == [code |-> "none", msg |-> <<>>]

OkStatus == [code |-> "OK", msg |-> <<>>]

MakeEvalError(msg) == [code |-> "EvalError", msg |-> msg]

MakeSqlError(msg) == [code |-> "SqlError", msg |-> msg]

RetCheckError == [code |-> "Internal", msg |-> <<"ZETASQL_RET_CHECK failure">>]

-----------------------------------------------------------------------------
(* The element catalog.                                                    *)

LiteralTypes == {"kSimpleLiteral", "kDoubleQuotedLiteral", "kWhitespace"}

FormatElementTypeString(type) ==
    CASE type = "kFormatElementTypeUnspecified" -> "FORMAT_ELEMENT_TYPE_UNSPECIFIED"
      [] type = "kSimpleLiteral" -> "SIMPLE_LITERAL"
      [] type = "kDoubleQuotedLiteral" -> "DOUBLE_QUOTED_LITERAL"
      [] type = "kWhitespace" -> "WHITESPACE"
      [] type = "kYYYY" -> "YYYY"
      [] type = "kYYY" -> "YYY"
      [] type = "kYY" -> "YY"
      [] type = "kY" -> "Y"
      [] type = "kRRRR" -> "RRRR"
      [] type = "kRR" -> "RR"
      [] type = "kYCommaYYY" -> "Y,YYY"
      [] type = "kIYYY" -> "IYYY"
      [] type = "kIYY" -> "IYY"
      [] type = "kIY" -> "IY"
      [] type = "kI" -> "I"
      [] type = "kSYYYY" -> "SYYYY"
      [] type = "kYEAR" -> "YEAR"
      [] type = "kSYEAR" -> "SYEAR"
      [] type = "kMM" -> "MM"
      [] type = "kMON" -> "MON"
      [] type = "kMONTH" -> "MONTH"
      [] type = "kRM" -> "RM"
      [] type = "kDDD" -> "DDD"
      [] type = "kDD" -> "DD"
      [] type = "kD" -> "D"
      [] type = "kDAY" -> "DAY"
      [] type = "kDY" -> "DY"
      [] type = "kJ" -> "J"
      [] type = "kHH" -> "HH"
      [] type = "kHH12" -> "HH12"
      [] type = "kHH24" -> "HH24"
      [] type = "kMI" -> "MI"
      [] type = "kSS" -> "SS"
      [] type = "kSSSSS" -> "SSSSS"
      [] type = "kFFN" -> "FFN"
      [] type = "kAM" -> "AM"
      [] type = "kPM" -> "PM"
      [] type = "kAMWithDots" -> "A.M."
      [] type = "kPMWithDots" -> "P.M."
      [] type = "kTZH" -> "TZH"
      [] type = "kTZM" -> "TZM"
      [] type = "kCC" -> "CC"
      [] type = "kSCC" -> "SCC"
      [] type = "kQ" -> "Q"
      [] type = "kIW" -> "IW"
      [] type = "kWW" -> "WW"
      [] type = "kW" -> "W"
      [] type = "kAD" -> "AD"
      [] type = "kBC" -> "BC"
      [] type = "kADWithDots" -> "A.D."
      [] type = "kBCWithDots" -> "B.C."
      [] type = "kSP" -> "SP"
      [] type = "kTH" -> "TH"
      [] type = "kSPTH" -> "SPTH"
      [] type = "kTHSP" -> "THSP"
      [] type = "kFM" -> "FM"

GetFormatElementCategoryFromType(type) ==
    CASE type = "kFormatElementTypeUnspecified" -> "kFormatElementCategoryUnspecified"
      [] type \in {"kSimpleLiteral", "kDoubleQuotedLiteral", "kWhitespace"} -> "kLiteral"
      [] type \in {"kYYYY", "kYYY", "kYY", "kY", "kRRRR", "kRR", "kYCommaYYY", "kIYYY",
                   "kIYY", "kIY", "kI", "kSYYYY", "kYEAR", "kSYEAR"} -> "kYear"
      [] type \in {"kMM", "kMON", "kMONTH", "kRM"} -> "kMonth"
      [] type \in {"kDDD", "kDD", "kD", "kDAY", "kDY", "kJ"} -> "kDay"
      [] type \in {"kHH", "kHH12", "kHH24"} -> "kHour"
      [] type = "kMI" -> "kMinute"
      [] type \in {"kSS", "kSSSSS", "kFFN"} -> "kSecond"
      [] type \in {"kAM", "kPM", "kAMWithDots", "kPMWithDots"} -> "kMeridianIndicator"
      [] type \in {"kTZH", "kTZM"} -> "kTimeZone"
      [] type \in {"kCC", "kSCC"} -> "kCentury"
      [] type = "kQ" -> "kQuarter"
      [] type \in {"kIW", "kWW", "kW"} -> "kWeek"
      [] type \in {"kAD", "kBC", "kADWithDots", "kBCWithDots"} -> "kEraIndicator"
      [] type \in {"kSP", "kTH", "kSPTH", "kTHSP", "kFM"} -> "kMisc"

FormatElementCategoryString(category) ==
    CASE category = "kFormatElementCategoryUnspecified" -> "FORMAT_ELEMENT_CATEGORY_UNSPECIFIED"
      [] category = "kLiteral" -> "LITERAL"
      [] category = "kYear" -> "YEAR"
      [] category = "kMonth" -> "MONTH"
      [] category = "kDay" -> "DAY"
      [] category = "kHour" -> "HOUR"
      [] category = "kMinute" -> "MINUTE"
      [] category = "kSecond" -> "SECOND"
      [] category = "kMeridianIndicator" -> "MERIDIAN_INDICATOR"
      [] category = "kTimeZone" -> "TIME_ZONE"
      [] category = "kCentury" -> "CENTURY"
      [] category = "kQuarter" -> "QUARTER"
      [] category = "kWeek" -> "WEEK"
      [] category = "kEraIndicator" -> "ERA_INDICATOR"
      [] category = "kMisc" -> "MISC"

\* A default-constructed DateTimeFormatElement.
DateTimeFormatElement ==
    [type |-> "kFormatElementTypeUnspecified",
     category |-> "kFormatElementCategoryUnspecified",
     len_in_format_str |-> 0,
     format_casing_type |-> "kFormatCasingTypeUnspecified",
     literal_value |-> <<>>,
     subsecond_digit_count |-> 0]

-----------------------------------------------------------------------------
(* The format element trie.                                                *)

\* The keys InitializeFormatElementTypeTrie inserts, each with its type, in the
\* sections of the source.

\* Simple literals, the double quoted literal and whitespace.
LiteralKeys ==
    {
     [key |-> <<"-">>, type |-> "kSimpleLiteral"],
     [key |-> <<".">>, type |-> "kSimpleLiteral"],
     [key |-> <<"/">>, type |-> "kSimpleLiteral"],
     [key |-> <<",">>, type |-> "kSimpleLiteral"],
     [key |-> <<"'">>, type |-> "kSimpleLiteral"],
     [key |-> <<";">>, type |-> "kSimpleLiteral"],
     [key |-> <<":">>, type |-> "kSimpleLiteral"],
     [key |-> <<"\"">>, type |-> "kDoubleQuotedLiteral"],
     [key |-> <<" ">>, type |-> "kWhitespace"]
    }

\* YearKeys with the inserts of "YYYY" and "Y,YYY" left out.
YearKeys_WithoutLongest ==
    {
     [key |-> <<"Y","Y","Y">>, type |-> "kYYY"],
     [key |-> <<"Y","Y">>, type |-> "kYY"],
     [key |-> <<"Y">>, type |-> "kY"],
     [key |-> <<"R","R","R","R">>, type |-> "kRRRR"],
     [key |-> <<"R","R">>, type |-> "kRR"],
     [key |-> <<"I","Y","Y","Y">>, type |-> "kIYYY"],
     [key |-> <<"I","Y","Y">>, type |-> "kIYY"],
     [key |-> <<"I","Y">>, type |-> "kIY"],
     [key |-> <<"I">>, type |-> "kI"],
     [key |-> <<"S","Y","Y","Y","Y">>, type |-> "kSYYYY"],
     [key |-> <<"Y","E","A","R">>, type |-> "kYEAR"],
     [key |-> <<"S","Y","E","A","R">>, type |-> "kSYEAR"]
    }

\* Year.
YearKeys ==
    {
     [key |-> <<"Y","Y","Y","Y">>, type |-> "kYYYY"],
     [key |-> <<"Y","Y","Y">>, type |-> "kYYY"],
     [key |-> <<"Y","Y">>, type |-> "kYY"],
     [key |-> <<"Y">>, type |-> "kY"],
     [key |-> <<"R","R","R","R">>, type |-> "kRRRR"],
     [key |-> <<"R","R">>, type |-> "kRR"],
     [key |-> <<"Y",",","Y","Y","Y">>, type |-> "kYCommaYYY"],
     [key |-> <<"I","Y","Y","Y">>, type |-> "kIYYY"],
     [key |-> <<"I","Y","Y">>, type |-> "kIYY"],
     [key |-> <<"I","Y">>, type |-> "kIY"],
     [key |-> <<"I">>, type |-> "kI"],
     [key |-> <<"S","Y","Y","Y","Y">>, type |-> "kSYYYY"],
     [key |-> <<"Y","E","A","R">>, type |-> "kYEAR"],
     [key |-> <<"S","Y","E","A","R">>, type |-> "kSYEAR"]
    }

\* Month and day.
MonthDayKeys ==
    {
     [key |-> <<"M","M">>, type |-> "kMM"],
     [key |-> <<"M","O","N">>, type |-> "kMON"],
     [key |-> <<"M","O","N","T","H">>, type |-> "kMONTH"],
     [key |-> <<"R","M">>, type |-> "kRM"],
     [key |-> <<"D","D","D">>, type |-> "kDDD"],
     [key |-> <<"D","D">>, type |-> "kDD"],
     [key |-> <<"D">>, type |-> "kD"],
     [key |-> <<"D","A","Y">>, type |-> "kDAY"],
     [key |-> <<"D","Y">>, type |-> "kDY"],
     [key |-> <<"J">>, type |-> "kJ"]
    }

\* Hour, minute, second, meridian indicator and time zone.
TimeKeys ==
    {
     [key |-> <<"H","H">>, type |-> "kHH"],
     [key |-> <<"H","H","1","2">>, type |-> "kHH12"],
     [key |-> <<"H","H","2","4">>, type |-> "kHH24"],
     [key |-> <<"M","I">>, type |-> "kMI"],
     [key |-> <<"S","S">>, type |-> "kSS"],
     [key |-> <<"S","S","S","S","S">>, type |-> "kSSSSS"],
     [key |-> <<"F","F","1">>, type |-> "kFFN"],
     [key |-> <<"F","F","2">>, type |-> "kFFN"],
     [key |-> <<"F","F","3">>, type |-> "kFFN"],
     [key |-> <<"F","F","4">>, type |-> "kFFN"],
     [key |-> <<"F","F","5">>, type |-> "kFFN"],
     [key |-> <<"F","F","6">>, type |-> "kFFN"],
     [key |-> <<"F","F","7">>, type |-> "kFFN"],
     [key |-> <<"F","F","8">>, type |-> "kFFN"],
     [key |-> <<"F","F","9">>, type |-> "kFFN"],
     [key |-> <<"A","M">>, type |-> "kAM"],
     [key |-> <<"P","M">>, type |-> "kPM"],
     [key |-> <<"A",".","M",".">>, type |-> "kAMWithDots"],
     [key |-> <<"P",".","M",".">>, type |-> "kPMWithDots"],
     [key |-> <<"T","Z","H">>, type |-> "kTZH"],
     [key |-> <<"T","Z","M">>, type |-> "kTZM"]
    }

\* Century, quarter, week, era indicator and misc.
OtherKeys ==
    {
     [key |-> <<"C","C">>, type |-> "kCC"],
     [key |-> <<"S","C","C">>, type |-> "kSCC"],
     [key |-> <<"Q">>, type |-> "kQ"],
     [key |-> <<"I","W">>, type |-> "kIW"],
     [key |-> <<"W","W">>, type |-> "kWW"],
     [key |-> <<"W">>, type |-> "kW"],
     [key |-> <<"A","D">>, type |-> "kAD"],
     [key |-> <<"B","C">>, type |-> "kBC"],
     [key |-> <<"A",".","D",".">>, type |-> "kADWithDots"],
     [key |-> <<"B",".","C",".">>, type |-> "kBCWithDots"],
     [key |-> <<"S","P">>, type |-> "kSP"],
     [key |-> <<"T","H">>, type |-> "kTH"],
     [key |-> <<"S","P","T","H">>, type |-> "kSPTH"],
     [key |-> <<"T","H","S","P">>, type |-> "kTHSP"],
     [key |-> <<"F","M">>, type |-> "kFM"]
    }

FormatElementTypeTrie ==
    LiteralKeys \cup YearKeys \cup MonthDayKeys \cup TimeKeys \cup OtherKeys

kFormatElementTypeNullValue == "kFormatElementTypeUnspecified"

\* GeneralTrie::GetDataForMaximalPrefix: the data of the longest key that is a
\* prefix of s with that key's length, or the null value when no key is.
GetDataForMaximalPrefix(s) ==
    LET matches == {e \in FormatElementTypeTrie : StartsWith(s, e.key)}
    IN  IF matches = {}
        THEN [type |-> kFormatElementTypeNullValue, matched_len |-> 0]
        ELSE LET best == CHOOSE e \in matches :
                             \A o \in matches : Len(o.key) <= Len(e.key)
             IN  [type |-> best.type, matched_len |-> Len(best.key)]

-----------------------------------------------------------------------------
(* The tokenizer.                                                          *)

\* GetFormatCasingTypeOfNonLiteralElements without the exception for the
\* meridian and era indicators.
GetFormatCasingTypeOfNonLiteralElements_NoIndicatorRule(format_element_str, category) ==
    IF category = "kLiteral"
    THEN [ok |-> FALSE, status |-> RetCheckError]
    ELSE IF format_element_str = <<>> \/ ~ascii_isalpha(format_element_str[1])
    THEN [ok |-> FALSE, status |-> RetCheckError]
    ELSE IF ascii_islower(format_element_str[1])
    THEN [ok |-> TRUE, value |-> "kAllLettersLowercase"]
    ELSE IF \/ Len(format_element_str) = 1
            \/ AsciiStrToUpper(format_element_str) = <<"Y",",","Y","Y","Y">>
    THEN [ok |-> TRUE, value |-> "kAllLettersUppercase"]
    ELSE IF ascii_isupper(format_element_str[1]) /\ ascii_islower(format_element_str[2])
    THEN [ok |-> TRUE, value |-> "kOnlyFirstLetterUppercase"]
    ELSE [ok |-> TRUE, value |-> "kAllLettersUppercase"]

\* StatusOr<FormatCasingType>.
GetFormatCasingTypeOfNonLiteralElements(format_element_str, category) ==
    IF category = "kLiteral"
    THEN [ok |-> FALSE, status |-> RetCheckError]
    ELSE IF format_element_str = <<>> \/ ~ascii_isalpha(format_element_str[1])
    THEN [ok |-> FALSE, status |-> RetCheckError]
    ELSE IF ascii_islower(format_element_str[1])
    THEN [ok |-> TRUE, value |-> "kAllLettersLowercase"]
    ELSE IF \/ category = "kMeridianIndicator"
            \/ category = "kEraIndicator"
            \/ Len(format_element_str) = 1
            \/ AsciiStrToUpper(format_element_str) = <<"Y",",","Y","Y","Y">>
    THEN [ok |-> TRUE, value |-> "kAllLettersUppercase"]
    ELSE IF ~ascii_isalpha(format_element_str[2])
    THEN [ok |-> FALSE, status |-> RetCheckError]
    ELSE IF ascii_isupper(format_element_str[1]) /\ ascii_islower(format_element_str[2])
    THEN [ok |-> TRUE, value |-> "kOnlyFirstLetterUppercase"]
    ELSE [ok |-> TRUE, value |-> "kAllLettersUppercase"]

\* The quoted-literal loop that takes any byte after a backslash as escaped.
RECURSIVE ScanDoubleQuotedLiteral_AnyEscape(_, _, _, _, _)
ScanDoubleQuotedLiteral_AnyEscape(format_str, ind_to_check, is_escaped, literal_value, matched_len) ==
    IF ind_to_check >= Len(format_str)
    THEN [ok |-> FALSE,
          status |-> MakeEvalError(<<"Cannot find matching \" for quoted literal">>)]
    ELSE LET char_to_check == format_str[ind_to_check + 1]
         IN  IF is_escaped
             THEN ScanDoubleQuotedLiteral_AnyEscape(format_str, ind_to_check + 1, FALSE,
                                                    Append(literal_value, char_to_check),
                                                    matched_len + 1)
             ELSE IF char_to_check = "\\"
             THEN ScanDoubleQuotedLiteral_AnyEscape(format_str, ind_to_check + 1, TRUE,
                                                    literal_value, matched_len + 1)
             ELSE IF char_to_check = "\""
             THEN [ok |-> TRUE,
                   value |-> [DateTimeFormatElement EXCEPT
                                 !.type = "kDoubleQuotedLiteral",
                                 !.category = "kLiteral",
                                 !.format_casing_type = "kPreserveCase",
                                 !.literal_value = literal_value,
                                 !.len_in_format_str = matched_len + 1]]
             ELSE ScanDoubleQuotedLiteral_AnyEscape(format_str, ind_to_check + 1, FALSE,
                                                    Append(literal_value, char_to_check),
                                                    matched_len + 1)

\* The scan for the end of a double quoted literal: the while loop of
\* GetNextDateTimeFormatElement, entered with ind_to_check = 1, matched_len = 1.
RECURSIVE ScanDoubleQuotedLiteral(_, _, _, _, _)
ScanDoubleQuotedLiteral(format_str, ind_to_check, is_escaped, literal_value, matched_len) ==
    IF ind_to_check >= Len(format_str)
    THEN [ok |-> FALSE,
          status |-> MakeEvalError(<<"Cannot find matching \" for quoted literal">>)]
    ELSE LET char_to_check == format_str[ind_to_check + 1]
         IN  IF is_escaped
             THEN IF char_to_check = "\\" \/ char_to_check = "\""
                  THEN ScanDoubleQuotedLiteral(format_str, ind_to_check + 1, FALSE,
                                               Append(literal_value, char_to_check),
                                               matched_len + 1)
                  ELSE [ok |-> FALSE,
                        status |-> MakeEvalError(<<"Unsupported escape sequence \\",
                                                   char_to_check, " in text">>)]
             ELSE IF char_to_check = "\\"
             THEN ScanDoubleQuotedLiteral(format_str, ind_to_check + 1, TRUE,
                                          literal_value, matched_len + 1)
             ELSE IF char_to_check = "\""
             THEN [ok |-> TRUE,
                   value |-> [DateTimeFormatElement EXCEPT
                                 !.type = "kDoubleQuotedLiteral",
                                 !.category = "kLiteral",
                                 !.format_casing_type = "kPreserveCase",
                                 !.literal_value = literal_value,
                                 !.len_in_format_str = matched_len + 1]]
             ELSE ScanDoubleQuotedLiteral(format_str, ind_to_check + 1, FALSE,
                                          Append(literal_value, char_to_check),
                                          matched_len + 1)

\* The end of the run of ' ' that starts at offset 0 of format_str.
RECURSIVE WhitespaceRunEnd(_, _)
WhitespaceRunEnd(format_str, matched_len) ==
    IF matched_len < Len(format_str) /\ format_str[matched_len + 1] = " "
    THEN WhitespaceRunEnd(format_str, matched_len + 1)
    ELSE matched_len

\* StatusOr<DateTimeFormatElement>: the element at the start of format_str.
GetNextDateTimeFormatElement(format_str, upper_format_str) ==
    LET found == GetDataForMaximalPrefix(upper_format_str)
        type == found.type
        matched_len == found.matched_len
        category == GetFormatElementCategoryFromType(type)
        format_element == [DateTimeFormatElement EXCEPT !.type = type, !.category = category]
    IN  IF type = kFormatElementTypeNullValue
        THEN [ok |-> FALSE,
              status |-> MakeEvalError(<<"Cannot find matched format element">>)]
        ELSE IF category # "kLiteral"
        THEN LET casing == GetFormatCasingTypeOfNonLiteralElements(
                               SubstrN(format_str, 0, matched_len), category)
                 count == SimpleAtoi(SubstrN(format_str, 2, matched_len - 2))
             IN  IF ~casing.ok
                 THEN [ok |-> FALSE, status |-> casing.status]
                 ELSE IF type = "kFFN" /\ ~count.ok
                 THEN [ok |-> FALSE,
                       status |-> MakeEvalError(<<"Failed to parse format element of FFN type">>)]
                 ELSE [ok |-> TRUE,
                       value |-> [format_element EXCEPT
                                     !.format_casing_type = casing.value,
                                     !.len_in_format_str = matched_len,
                                     !.subsecond_digit_count =
                                         IF type = "kFFN" THEN count.value ELSE 0]]
        ELSE IF type = "kSimpleLiteral"
        THEN [ok |-> TRUE,
              value |-> [format_element EXCEPT
                            !.format_casing_type = "kPreserveCase",
                            !.len_in_format_str = matched_len,
                            !.literal_value = SubstrN(format_str, 0, matched_len)]]
        ELSE IF type = "kWhitespace"
        THEN [ok |-> TRUE,
              value |-> [format_element EXCEPT
                            !.format_casing_type = "kPreserveCase",
                            !.len_in_format_str = WhitespaceRunEnd(format_str, matched_len)]]
        ELSE IF type # "kDoubleQuotedLiteral"
        THEN [ok |-> FALSE, status |-> RetCheckError]
        ELSE ScanDoubleQuotedLiteral(format_str, 1, FALSE, <<>>, matched_len)

\* UpperFormatStr with the conversion left out: the trie is searched with the
\* format string as written.
UpperFormatStr_AsWritten(format_str) == format_str

\* upper_format_str of GetDateTimeFormatElements.
UpperFormatStr(format_str) == AsciiStrToUpper(format_str)

\* The error GetDateTimeFormatElements returns when an element fails at processed.
TokenizeError(res, processed) ==
    MakeEvalError(res.status.msg \o <<" at ", ToString(processed)>>)

\* GetDateTimeFormatElements as a function of its argument: the loop run from
\* processed to the end.  StatusOr<std::vector<DateTimeFormatElement>>.
RECURSIVE GetDateTimeFormatElementsFrom(_, _, _)
GetDateTimeFormatElementsFrom(format_str, processed, elements) ==
    IF processed >= Len(format_str)
    THEN [ok |-> TRUE, value |-> elements]
    ELSE LET res == GetNextDateTimeFormatElement(
                        Substr(format_str, processed),
                        Substr(UpperFormatStr(format_str), processed))
         IN  IF res.ok
             THEN GetDateTimeFormatElementsFrom(
                      format_str, processed + res.value.len_in_format_str,
                      Append(elements, res.value))
             ELSE [ok |-> FALSE, status |-> TokenizeError(res, processed)]

GetDateTimeFormatElements(format_str) == GetDateTimeFormatElementsFrom(format_str, 0, <<>>)

-----------------------------------------------------------------------------
(* Inputs: format strings are concatenations of a few pieces.              *)

RECURSIVE Concat(_)
Concat(pieces) ==
    IF pieces = <<>> THEN <<>> ELSE Head(pieces) \o Concat(Tail(pieces))

ConcatsOf(pieces, n) ==
    {Concat(ps) : ps \in UNION {[1..k -> pieces] : k \in 0..n}}

MaxTokPieces == 3

\* Fragments around the overlapping keys Y.., Y,YYY, R.., A.M., D.., in both
\* cases, with the bytes of whitespace and of quoted literals.
TokPieces ==
    {<<"Y">>, <<"y">>, <<"Y","Y","Y">>, <<",">>, <<".">>, <<"M">>, <<"m">>,
     <<"M",".">>, <<"A">>, <<"a">>, <<"D">>, <<"d">>, <<"R">>, <<"R","R">>,
     <<" ">>, <<"\"">>, <<"\\">>, <<"\\","\"">>, <<"\\","\\">>}

TokFormats == ConcatsOf(TokPieces, MaxTokPieces)

-----------------------------------------------------------------------------
(* Civil times and the callers' outputs.                                   *)

\* absl::CivilSecond(y, m, d, hh, mm, ss) of fields that need no normalizing,
\* with the subsecond of the instant in nanoseconds.
CivilTime(y, m, d, hh, mm, ss, ns) ==
    [year |-> y, month |-> m, day |-> d, hour |-> hh, minute |-> mm, second |-> ss,
     nanos |-> ns]

\* What the caller's absl::Time or int64_t holds before the call writes it.
Unwritten == [written |-> FALSE]

\* What the caller's std::string holds before the call writes it: no string of
\* bytes.
UnwrittenString == <<"unwritten">>

\* The parse and format phases of a call that has none, or has not begun them.
NoCast ==
    /\ overload = "none"
    /\ timestamp_string = <<>>
    /\ timezone_string = <<"U", "T", "C">>
    /\ cs_now = CivilTime(2000, 1, 1, 0, 0, 0, 0)
    /\ base_time = CivilTime(1970, 1, 1, 0, 0, 0, 0)
    /\ processed_format_element_count = 0
    /\ timestamp_str_parsed_length = 0
    /\ year = 0
    /\ month = 0
    /\ mday = 0
    /\ error_in_parsing = FALSE
    /\ timestamp = Unwritten
    /\ updated_format_string = <<>>
    /\ out = UnwrittenString

-----------------------------------------------------------------------------
(* The tokenizer loop, one iteration per step.                             *)

\* NextProcessedLen that leaves the cursor where it was.
NextProcessedLen_Stay(processed, format_element) ==
    processed

\* NextProcessedLen advancing by one byte instead of by the element's length.
NextProcessedLen_OneByte(processed, format_element) ==
    processed + 1

\* processed_len after format_element was pushed.
NextProcessedLen(processed, format_element) ==
    processed + format_element.len_in_format_str

\* One iteration of the while loop of GetDateTimeFormatElements.  Every entry
\* point returns the tokenizer's error as its own.
GetDateTimeFormatElementsStep ==
    /\ pc = "tokenize"
    /\ processed_len < Len(format_string)
    /\ LET res == GetNextDateTimeFormatElement(
                      Substr(format_string, processed_len),
                      Substr(UpperFormatStr(format_string), processed_len))
       IN  IF res.ok
           THEN /\ format_elements' = Append(format_elements, res.value)
                /\ processed_len' = NextProcessedLen(processed_len, res.value)
                /\ UNCHANGED <<pc, tokenizer_status, status>>
           ELSE /\ tokenizer_status' = TokenizeError(res, processed_len)
                /\ status' = TokenizeError(res, processed_len)
                /\ pc' = "done"
                /\ UNCHANGED <<format_elements, processed_len>>
    /\ UNCHANGED cast_vars
    /\ UNCHANGED <<entry, format_string, out_type>>

\* The loop ends and GetDateTimeFormatElements returns format_elements.
GetDateTimeFormatElementsReturn ==
    /\ pc = "tokenize"
    /\ processed_len >= Len(format_string)
    /\ tokenizer_status' = OkStatus
    /\ IF entry = "GetDateTimeFormatElements"
       THEN pc' = "done" /\ status' = OkStatus
       ELSE IF entry = "CastFormatTimestampToString"
       THEN pc' = "format" /\ UNCHANGED status
       ELSE pc' = "validate" /\ UNCHANGED status
    /\ UNCHANGED cast_vars
    /\ UNCHANGED <<entry, format_string, out_type, processed_len, format_elements>>

\* A direct call of cast_date_time_internal::GetDateTimeFormatElements.
InitTok ==
    /\ entry = "GetDateTimeFormatElements"
    /\ format_string \in TokFormats
    /\ out_type = "none"
    /\ pc = "tokenize"
    /\ processed_len = 0
    /\ format_elements = <<>>
    /\ tokenizer_status = NoStatus
    /\ status = NoStatus
    /\ NoCast

NextTok == GetDateTimeFormatElementsStep \/ GetDateTimeFormatElementsReturn

SpecTok == InitTok /\ [][NextTok]_vars

-----------------------------------------------------------------------------
(* Element debug names.                                                    *)

\* absl::CEscape on the bytes of the model: quotes and the backslash get a
\* backslash in front.
CEscape(str) ==
    Concat([i \in 1..Len(str) |->
               IF str[i] \in {"\"", "'", "\\"} THEN <<"\\", str[i]>> ELSE <<str[i]>>])

\* DateTimeFormatElement::ToString, as the pieces of the string.
ElementToString(format_element) ==
    CASE format_element.type = "kSimpleLiteral" ->
             <<"'">> \o format_element.literal_value \o <<"'">>
      [] format_element.type = "kDoubleQuotedLiteral" ->
             <<"'", "\"">> \o CEscape(format_element.literal_value) \o <<"\"", "'">>
      [] format_element.type = "kWhitespace" ->
             <<"'">> \o [i \in 1..format_element.len_in_format_str |-> " "] \o <<"'">>
      [] format_element.type = "kFFN" ->
             <<"'", "FF", ToString(format_element.subsecond_digit_count), "'">>
      [] OTHER ->
             <<"'", FormatElementTypeString(format_element.type), "'">>

-----------------------------------------------------------------------------
(* The validator of the parse direction.                                   *)

\* IsSupportedForParsing with the cases the parser's switch has, and no other.
IsSupportedForParsing_OnlyImplemented(format_element) ==
    format_element.type \in
        {"kSimpleLiteral", "kDoubleQuotedLiteral", "kWhitespace", "kYYYY", "kYYY",
         "kYY", "kY", "kRRRR", "kRR", "kYCommaYYY"}

\* IsSupportedForParsing with every case returning true.
IsSupportedForParsing_Any(format_element) ==
    TRUE

IsSupportedForParsing(format_element) ==
    format_element.type \in
        {"kSimpleLiteral", "kDoubleQuotedLiteral", "kWhitespace", "kYYYY", "kYYY",
         "kYY", "kY", "kRRRR", "kRR", "kYCommaYYY", "kMM", "kMON", "kMONTH", "kDD",
         "kDDD", "kHH", "kHH12", "kHH24", "kMI", "kSS", "kSSSSS", "kFFN", "kAM",
         "kPM", "kAMWithDots", "kPMWithDots", "kTZH", "kTZM"}

\* category_to_elements_map after the loop over all elements: per category
\* present, its first two elements in order.
CategoryToElementsMap(elements) ==
    [c \in {elements[i].category : i \in 1..Len(elements)} |->
        LET all == SelectSeq(elements, LAMBDA e : e.category = c)
        IN  SubSeq(all, 1, IF Len(all) < 2 THEN Len(all) ELSE 2)]

\* type_to_element_map after the loop over all elements: per type present, its
\* first element.
TypeToElementMap(elements) ==
    [t \in {elements[i].type : i \in 1..Len(elements)} |->
        elements[CHOOSE i \in 1..Len(elements) :
                     /\ elements[i].type = t
                     /\ \A j \in 1..(i - 1) : elements[j].type # t]]

\* The loop without the test for a repeated type.
IsRepeatedNonLiteralType_Never(elements, i) ==
    FALSE

\* The loop's test on elements[i]: its type is already in type_to_element_map
\* and it is no literal.
IsRepeatedNonLiteralType(elements, i) ==
    /\ \E j \in 1..(i - 1) : elements[j].type = elements[i].type
    /\ elements[i].category # "kLiteral"

CheckForDuplicateElementsInCategory(category, category_to_elements_map) ==
    IF /\ category \in DOMAIN category_to_elements_map
       /\ Len(category_to_elements_map[category]) > 1
    THEN MakeEvalError(
             <<"More than one format element in category ",
               FormatElementCategoryString(category), " exist: ">>
             \o ElementToString(category_to_elements_map[category][1])
             \o <<" and ">>
             \o ElementToString(category_to_elements_map[category][2]))
    ELSE OkStatus

CheckCategoryNotExist(category, category_to_elements_map, output_type_name) ==
    IF category \in DOMAIN category_to_elements_map
    THEN MakeEvalError(
             <<"Format element in category ", FormatElementCategoryString(category), " (">>
             \o ElementToString(category_to_elements_map[category][1])
             \o <<") is not allowed for output type ", output_type_name>>)
    ELSE OkStatus

\* CheckForMutuallyExclusiveElements (type, category) that never fails.
CheckForMutuallyExclusiveElements_Off(type, category, type_to_element_map, category_to_elements_map) ==
    OkStatus

\* The overload for a type and a category.
CheckForMutuallyExclusiveElements(type, category, type_to_element_map, category_to_elements_map) ==
    IF /\ type \in DOMAIN type_to_element_map
       /\ category \in DOMAIN category_to_elements_map
    THEN MakeEvalError(
             <<"Format element in category ", FormatElementCategoryString(category), " (">>
             \o ElementToString(category_to_elements_map[category][1])
             \o <<") and format element ">>
             \o ElementToString(type_to_element_map[type])
             \o <<" cannot exist simultaneously">>)
    ELSE OkStatus

\* CheckForMutuallyExclusiveElements (type1, type2) that never fails.
CheckForMutuallyExclusiveTypes_Off(type1, type2, type_to_element_map) ==
    OkStatus

\* The overload for two types.
CheckForMutuallyExclusiveTypes(type1, type2, type_to_element_map) ==
    IF /\ type1 \in DOMAIN type_to_element_map
       /\ type2 \in DOMAIN type_to_element_map
    THEN MakeEvalError(
             <<"Format elements ">>
             \o ElementToString(type_to_element_map[type1])
             \o <<" and ">>
             \o ElementToString(type_to_element_map[type2])
             \o <<" cannot exist simultaneously">>)
    ELSE OkStatus

\* absl::StrJoin(strs, sep), as the pieces of the string.
RECURSIVE StrJoin(_, _)
StrJoin(strs, sep) ==
    IF Len(strs) <= 1 THEN strs
    ELSE <<Head(strs), sep>> \o StrJoin(Tail(strs), sep)

\* CheckForCoexistance without its else-if branch: a category element no
\* longer requires one of the types.
CheckForCoexistance_OneWay(types, category, type_to_element_map, category_to_elements_map) ==
    LET present == {k \in 1..Len(types) : types[k] \in DOMAIN type_to_element_map}
        present_type == types[CHOOSE k \in present : \A o \in present : k <= o]
    IN  IF present # {} /\ category \notin DOMAIN category_to_elements_map
        THEN MakeEvalError(
                 <<"Format element in category ", FormatElementCategoryString(category),
                   " is required when format element ">>
                 \o ElementToString(type_to_element_map[present_type])
                 \o <<" exists">>)
        ELSE OkStatus

CheckForCoexistance(types, category, type_to_element_map, category_to_elements_map) ==
    LET present == {k \in 1..Len(types) : types[k] \in DOMAIN type_to_element_map}
        type_exists == present # {}
        present_type == types[CHOOSE k \in present : \A o \in present : k <= o]
    IN  IF type_exists /\ category \notin DOMAIN category_to_elements_map
        THEN MakeEvalError(
                 <<"Format element in category ", FormatElementCategoryString(category),
                   " is required when format element ">>
                 \o ElementToString(type_to_element_map[present_type])
                 \o <<" exists">>)
        ELSE IF category \in DOMAIN category_to_elements_map /\ ~type_exists
        THEN MakeEvalError(
                 <<"Format element of type ">>
                 \o StrJoin([k \in 1..Len(types) |-> FormatElementTypeString(types[k])], "/")
                 \o <<" is required when format element in category ",
                      FormatElementCategoryString(category), " (">>
                 \o ElementToString(category_to_elements_map[category][1])
                 \o <<") exists">>)
        ELSE OkStatus

\* categories_to_check_duplicate without kYear.
categories_to_check_duplicate_WithoutYear ==
    <<"kMeridianIndicator", "kMonth", "kDay", "kHour", "kMinute">>

categories_to_check_duplicate ==
    <<"kMeridianIndicator", "kYear", "kMonth", "kDay", "kHour", "kMinute">>

\* ZETASQL_RETURN_IF_ERROR over a sequence of checks: the first error, if any.
FirstError(statuses) ==
    IF \E k \in 1..Len(statuses) : statuses[k] # OkStatus
    THEN statuses[CHOOSE k \in 1..Len(statuses) :
                      /\ statuses[k] # OkStatus
                      /\ \A j \in 1..(k - 1) : statuses[j] = OkStatus]
    ELSE OkStatus

ValidateDateTimeFormatElements(elements, invalid_categories, output_type_name) ==
    LET failing == {i \in 1..Len(elements) :
                       \/ ~IsSupportedForParsing(elements[i])
                       \/ IsRepeatedNonLiteralType(elements, i)}
        first == CHOOSE i \in failing : \A o \in failing : i <= o
        category_to_elements_map == CategoryToElementsMap(elements)
        type_to_element_map == TypeToElementMap(elements)
    IN  IF failing # {}
        THEN IF ~IsSupportedForParsing(elements[first])
             THEN MakeEvalError(<<"Format element ">>
                                \o ElementToString(elements[first])
                                \o <<" is not supported for parsing">>)
             ELSE MakeEvalError(<<"Format element ">>
                                \o ElementToString(elements[first])
                                \o <<" appears more than once in the format string">>)
        ELSE FirstError(
                 [k \in 1..Len(categories_to_check_duplicate) |->
                     CheckForDuplicateElementsInCategory(
                         categories_to_check_duplicate[k], category_to_elements_map)]
                 \o <<CheckForMutuallyExclusiveElements(
                          "kDDD", "kMonth", type_to_element_map, category_to_elements_map),
                      CheckForMutuallyExclusiveElements(
                          "kHH24", "kMeridianIndicator", type_to_element_map,
                          category_to_elements_map),
                      CheckForCoexistance(
                          <<"kHH", "kHH12">>, "kMeridianIndicator", type_to_element_map,
                          category_to_elements_map),
                      CheckForMutuallyExclusiveElements(
                          "kSSSSS", "kHour", type_to_element_map, category_to_elements_map),
                      CheckForMutuallyExclusiveElements(
                          "kSSSSS", "kMinute", type_to_element_map, category_to_elements_map),
                      CheckForMutuallyExclusiveTypes("kSSSSS", "kSS", type_to_element_map)>>
                 \o [k \in 1..Len(invalid_categories) |->
                        CheckCategoryNotExist(invalid_categories[k],
                                              category_to_elements_map, output_type_name)])

-----------------------------------------------------------------------------
(* The validators of the format direction.                                 *)

\* The loop shared by the three validators: the first element whose category
\* is not allowed fails with "<type_name> does not support <element>".
ValidateCategoriesForFormatting(elements, allowed, type_name) ==
    LET bad == {i \in 1..Len(elements) : elements[i].category \notin allowed}
        first == CHOOSE i \in bad : \A o \in bad : i <= o
    IN  IF bad = {}
        THEN OkStatus
        ELSE MakeEvalError(<<type_name, " does not support ">>
                           \o ElementToString(elements[first]))

ValidateDateDateTimeFormatElementsForFormatting(elements) ==
    ValidateCategoriesForFormatting(
        elements, {"kLiteral", "kYear", "kMonth", "kDay"}, "DATE")

\* ValidateTimeDateTimeFormatElementsForFormatting without the kSecond case.
ValidateTimeDateTimeFormatElementsForFormatting_NoSecond(elements) ==
    ValidateCategoriesForFormatting(
        elements, {"kLiteral", "kHour", "kMinute", "kMeridianIndicator"}, "TIME")

ValidateTimeDateTimeFormatElementsForFormatting(elements) ==
    ValidateCategoriesForFormatting(
        elements, {"kLiteral", "kHour", "kMinute", "kSecond", "kMeridianIndicator"}, "TIME")

ValidateDatetimeDateTimeFormatElementsForFormatting(elements) ==
    ValidateCategoriesForFormatting(
        elements,
        {"kLiteral", "kYear", "kMonth", "kDay", "kHour", "kMinute", "kSecond",
         "kMeridianIndicator"},
        "DATETIME")

-----------------------------------------------------------------------------
(* The entry points, from the tokenizer's return to the end of validation. *)

TYPE_KINDS == {"TYPE_DATE", "TYPE_DATETIME", "TYPE_TIME", "TYPE_TIMESTAMP", "TYPE_STRING"}

\* ValidateFormatStringForParsing after GetDateTimeFormatElements returned.
ValidateFormatStringForParsing ==
    /\ pc = "validate"
    /\ entry = "ValidateFormatStringForParsing"
    /\ status' = IF out_type = "TYPE_TIMESTAMP"
                 THEN ValidateDateTimeFormatElements(format_elements, <<>>, "TIMESTAMP")
                 ELSE MakeSqlError(<<"Unsupported output type for validation">>)
    /\ pc' = "done"
    /\ UNCHANGED cast_vars
    /\ UNCHANGED <<entry, format_string, out_type, processed_len, format_elements,
                   tokenizer_status>>

\* CastStringToTimestamp (all overloads) between GetDateTimeFormatElements and
\* ParseTimeWithFormatElements.
CastStringToTimestampValidate ==
    /\ pc = "validate"
    /\ entry = "CastStringToTimestamp"
    /\ LET validation == ValidateDateTimeFormatElements(format_elements, <<>>, "TIMESTAMP")
       IN  IF validation = OkStatus
           THEN pc' = "parse" /\ UNCHANGED status
           ELSE pc' = "done" /\ status' = validation
    /\ UNCHANGED cast_vars
    /\ UNCHANGED <<entry, format_string, out_type, processed_len, format_elements,
                   tokenizer_status>>

\* ValidateFormatStringForFormatting after GetDateTimeFormatElements returned.
ValidateFormatStringForFormatting ==
    /\ pc = "validate"
    /\ entry = "ValidateFormatStringForFormatting"
    /\ status' =
           CASE out_type = "TYPE_DATE" ->
                    ValidateDateDateTimeFormatElementsForFormatting(format_elements)
             [] out_type = "TYPE_DATETIME" ->
                    ValidateDatetimeDateTimeFormatElementsForFormatting(format_elements)
             [] out_type = "TYPE_TIME" ->
                    ValidateTimeDateTimeFormatElementsForFormatting(format_elements)
             [] out_type = "TYPE_TIMESTAMP" -> OkStatus
             [] OTHER -> MakeSqlError(<<"Unsupported output type for validation">>)
    /\ pc' = "done"
    /\ UNCHANGED cast_vars
    /\ UNCHANGED <<entry, format_string, out_type, processed_len, format_elements,
                   tokenizer_status>>

\* The validation of a formatter entry point of a valid value; on success the
\* entry point goes on to FromCastFormatTimestampToStringInternal.
FormatterValidate(validation) ==
    /\ pc = "validate"
    /\ IF validation = OkStatus
       THEN pc' = "format" /\ UNCHANGED status
       ELSE pc' = "done" /\ status' = validation
    /\ UNCHANGED cast_vars
    /\ UNCHANGED <<entry, format_string, out_type, processed_len, format_elements,
                   tokenizer_status>>

CastFormatDateToStringValidate ==
    /\ entry = "CastFormatDateToString"
    /\ FormatterValidate(ValidateDateDateTimeFormatElementsForFormatting(format_elements))

CastFormatDatetimeToStringValidate ==
    /\ entry = "CastFormatDatetimeToString"
    /\ FormatterValidate(ValidateDatetimeDateTimeFormatElementsForFormatting(format_elements))

CastFormatTimeToStringValidate ==
    /\ entry = "CastFormatTimeToString"
    /\ FormatterValidate(ValidateTimeDateTimeFormatElementsForFormatting(format_elements))

\* Format strings of whole element keywords: the keywords that share a type
\* (MI in two casings) or a category (Year, Meridian, Second, TimeZone), one
\* keyword the parser does not support (Q), whitespace as the literal.
DupPieces ==
    {<<" ">>, <<"Y","Y">>, <<"R","R","R","R">>, <<"M","M">>, <<"H","H","1","2">>,
     <<"M","i">>, <<"m","I">>, <<"S","S">>, <<"F","F","3">>, <<"A","M">>, <<"P","M">>,
     <<"T","Z","H">>, <<"T","Z","M">>, <<"Q">>}

\* The keywords of the exclusion and coexistence rules.
ClockPieces ==
    {<<" ">>, <<"Y","Y">>, <<"M","M">>, <<"D","D","D">>, <<"H","H">>,
     <<"H","H","1","2">>, <<"H","H","2","4">>, <<"M","i">>, <<"S","S">>,
     <<"S","S","S","S","S">>, <<"A","M">>, <<"P","M">>, <<"Q">>}

ValPieces == DupPieces \cup ClockPieces

MaxParsePieces == 3

\* A call of ValidateFormatStringForParsing for TIMESTAMP or of
\* CastStringToTimestamp, on a format string of the given pieces.
InitParseOf(pieces) ==
    /\ entry \in {"ValidateFormatStringForParsing", "CastStringToTimestamp"}
    /\ out_type = "TYPE_TIMESTAMP"
    /\ format_string \in ConcatsOf(pieces, MaxParsePieces)
    /\ pc = "tokenize"
    /\ processed_len = 0
    /\ format_elements = <<>>
    /\ tokenizer_status = NoStatus
    /\ status = NoStatus
    /\ NoCast

InitParse == InitParseOf(DupPieces)

InitParseClock == InitParseOf(ClockPieces)

NextParse ==
    \/ GetDateTimeFormatElementsStep
    \/ GetDateTimeFormatElementsReturn
    \/ ValidateFormatStringForParsing
    \/ CastStringToTimestampValidate

SpecParse == InitParse /\ [][NextParse]_vars

SpecParseClock == InitParseClock /\ [][NextParse]_vars

MaxPieces == 2

Formats == ConcatsOf(ValPieces, MaxPieces)

\* A call of any entry point that takes a format string.
Init ==
    /\ \/ /\ entry \in {"ValidateFormatStringForParsing", "ValidateFormatStringForFormatting"}
          /\ out_type \in TYPE_KINDS
       \/ entry = "CastStringToTimestamp" /\ out_type = "TYPE_TIMESTAMP"
       \/ entry = "CastFormatDateToString" /\ out_type = "TYPE_DATE"
       \/ entry = "CastFormatDatetimeToString" /\ out_type = "TYPE_DATETIME"
       \/ entry = "CastFormatTimeToString" /\ out_type = "TYPE_TIME"
       \/ entry = "CastFormatTimestampToString" /\ out_type = "TYPE_TIMESTAMP"
    /\ format_string \in Formats
    /\ pc = "tokenize"
    /\ processed_len = 0
    /\ format_elements = <<>>
    /\ tokenizer_status = NoStatus
    /\ status = NoStatus
    /\ NoCast

Next ==
    \/ GetDateTimeFormatElementsStep
    \/ GetDateTimeFormatElementsReturn
    \/ ValidateFormatStringForParsing
    \/ CastStringToTimestampValidate
    \/ ValidateFormatStringForFormatting
    \/ CastFormatDateToStringValidate
    \/ CastFormatDatetimeToStringValidate
    \/ CastFormatTimeToStringValidate

Spec == Init /\ [][Next]_vars

-----------------------------------------------------------------------------
(* UTF-8 and Unicode whitespace on the bytes of the model.                 *)

\* The bytes above 0x7F of the model: 0xC2 0xA0 encodes U+00A0 (no-break
\* space), 0xFF occurs in no well-formed string.
HighBytes == {"0xC2", "0xA0", "0xFF"}

\* U8_NEXT at offset i (0-based): the code point read, or "U_SENTINEL" for an
\* ill-formed sequence, and the offset after it.
U8_NEXT(str, i) ==
    IF str[i + 1] \notin HighBytes
    THEN [c |-> str[i + 1], i |-> i + 1]
    ELSE IF str[i + 1] = "0xC2" /\ i + 1 < Len(str) /\ str[i + 2] = "0xA0"
    THEN [c |-> "U+00A0", i |-> i + 2]
    ELSE [c |-> "U_SENTINEL", i |-> i + 1]

\* u_isUWhiteSpace on the code points of the model.
u_isUWhiteSpace(c) == c \in {" ", "\t", "\n", "U+00A0"}

RECURSIVE WellFormedFrom(_, _)
WellFormedFrom(str, i) ==
    IF i >= Len(str) THEN TRUE
    ELSE LET next == U8_NEXT(str, i)
         IN  next.c # "U_SENTINEL" /\ WellFormedFrom(str, next.i)

IsWellFormedUTF8(str) == WellFormedFrom(str, 0)

-----------------------------------------------------------------------------
(* The helpers of the parser.                                              *)

npos == -1

ParseStringByExactMatch(input_str, target_str) ==
    IF target_str = <<>> THEN 0
    ELSE IF StartsWith(input_str, target_str) THEN Len(target_str)
    ELSE npos

\* The while loop of TrimLeadingUnicodeWhiteSpaces from offset on.
RECURSIVE TrimFrom(_, _)
TrimFrom(input_str, offset) ==
    IF offset >= Len(input_str) THEN offset
    ELSE LET next == U8_NEXT(input_str, offset)
         IN  IF u_isUWhiteSpace(next.c) THEN TrimFrom(input_str, next.i) ELSE offset

\* TrimLeadingUnicodeWhiteSpaces that stops after one whitespace code point.
TrimLeadingUnicodeWhiteSpaces_One(input_str) ==
    IF input_str # <<>> /\ u_isUWhiteSpace(U8_NEXT(input_str, 0).c)
    THEN U8_NEXT(input_str, 0).i
    ELSE 0

TrimLeadingUnicodeWhiteSpaces(input_str) == TrimFrom(input_str, 0)

\* The number of leading decimal digits of input_str, at most max_width.
RECURSIVE DigitRun(_, _)
DigitRun(input_str, max_width) ==
    IF max_width > 0 /\ input_str # <<>> /\ InSeq(Head(input_str), Digits)
    THEN 1 + DigitRun(Tail(input_str), max_width - 1)
    ELSE 0

\* parse_date_time_utils::ParseInt on a range that starts at 0: the leading
\* digits, at most max_width of them, as a number that must lie in min..max.
\* Gives the end of the digits, or npos.
ParseIntDigits(input_str, max_width, min, max) ==
    LET n == DigitRun(input_str, max_width)
        v == DigitsValue(SubSeq(input_str, 1, n))
    IN  IF n = 0 \/ v < min \/ v > max
        THEN [parsed_width |-> npos, value |-> 0]
        ELSE [parsed_width |-> n, value |-> v]

\* ParseInt that takes a width of max_width for one beyond the range.
ParseInt_WidthBelowMax(input_str, min_width, max_width, min, max) ==
    LET res == ParseIntDigits(input_str, max_width, min, max)
    IN  IF res.parsed_width = npos
        THEN res
        ELSE IF res.parsed_width < min_width \/ res.parsed_width >= max_width
        THEN [parsed_width |-> npos, value |-> 0]
        ELSE res

\* ParseInt reading one digit less than max_width allows.
ParseInt_OneDigitLess(input_str, min_width, max_width, min, max) ==
    ParseIntDigits(input_str, max_width - 1, min, max)

\* ParseInt of this file: the width parsed must lie in min_width..max_width.
ParseInt(input_str, min_width, max_width, min, max) ==
    LET res == ParseIntDigits(input_str, max_width, min, max)
    IN  IF res.parsed_width = npos
        THEN res
        ELSE IF res.parsed_width < min_width \/ res.parsed_width > max_width
        THEN [parsed_width |-> npos, value |-> 0]
        ELSE res

\* ParseWithFormatElementOfTypeRR without the pivot.
ParseWithFormatElementOfTypeRR_NoPivot(timestamp_string_arg, current_year) ==
    LET res == ParseInt(timestamp_string_arg, 1, 2, 0, 99)
    IN  IF res.parsed_width # npos
        THEN [parsed_length |-> res.parsed_width,
              year |-> (current_year \div 100) * 100 + res.value]
        ELSE [parsed_length |-> npos, year |-> current_year]

\* Gives parsed_length and the value of *year afterwards (current_year when it
\* is not written: the caller passes its year for both).
ParseWithFormatElementOfTypeRR(timestamp_string_arg, current_year) ==
    LET current_year_last_two_digits == current_year % 100
        current_year_before_last_two_digits == current_year \div 100
        res == ParseInt(timestamp_string_arg, 1, 2, 0, 99)
        year_last_two_digits == res.value
        year_before_last_two_digits ==
            IF year_last_two_digits < 50 /\ current_year_last_two_digits >= 50
            THEN current_year_before_last_two_digits + 1
            ELSE IF year_last_two_digits >= 50 /\ current_year_last_two_digits < 50
            THEN current_year_before_last_two_digits - 1
            ELSE current_year_before_last_two_digits
    IN  IF res.parsed_width # npos
        THEN [parsed_length |-> res.parsed_width,
              year |-> year_before_last_two_digits * 100 + year_last_two_digits]
        ELSE [parsed_length |-> npos, year |-> current_year]

\* ParseWithFormatElementOfTypeYCommaYYY that takes 1 to 3 digits after the comma.
ParseWithFormatElementOfTypeYCommaYYY_ShortTail(timestamp_string_arg, year_arg) ==
    LET first == ParseInt(timestamp_string_arg, 1, 2, 0, 10)
        after_first == Substr(timestamp_string_arg, first.parsed_width)
        last == ParseInt(Substr(after_first, 1), 1, 3, 0, 999)
    IN  IF first.parsed_width = npos
           \/ ParseStringByExactMatch(after_first, <<",">>) = npos
           \/ last.parsed_width = npos
        THEN [parsed_length |-> npos, year |-> year_arg]
        ELSE [parsed_length |-> first.parsed_width + 1 + last.parsed_width,
              year |-> first.value * 1000 + last.value]

\* Gives parsed_length and the value of *year afterwards (year_arg when it is
\* not written).
ParseWithFormatElementOfTypeYCommaYYY(timestamp_string_arg, year_arg) ==
    LET first == ParseInt(timestamp_string_arg, 1, 2, 0, 10)
        after_first == Substr(timestamp_string_arg, first.parsed_width)
        comma == ParseStringByExactMatch(after_first, <<",">>)
        after_comma == Substr(after_first, comma)
        last == ParseInt(after_comma, 3, 3, 0, 999)
    IN  IF first.parsed_width = npos THEN [parsed_length |-> npos, year |-> year_arg]
        ELSE IF comma = npos THEN [parsed_length |-> npos, year |-> year_arg]
        ELSE IF last.parsed_width = npos THEN [parsed_length |-> npos, year |-> year_arg]
        ELSE [parsed_length |-> first.parsed_width + comma + last.parsed_width,
              year |-> first.value * 1000 + last.value]

-----------------------------------------------------------------------------
(* The civil-time library, in the UTC zone.                                *)

IsLeapYear(y) == y % 4 = 0 /\ (y % 100 # 0 \/ y % 400 = 0)

DaysPerMonth(y, m) ==
    IF m = 2 THEN (IF IsLeapYear(y) THEN 29 ELSE 28)
    ELSE IF m \in {4, 6, 9, 11} THEN 30
    ELSE 31

\* The normalization of absl::CivilSecond(y, m, d, 0, 0, 0) for m in 1..12 and
\* d in 1..31: a day past the end of the month runs into the next month.
CivilSecond(y, m, d) ==
    IF d <= DaysPerMonth(y, m) THEN CivilTime(y, m, d, 0, 0, 0, 0)
    ELSE IF m < 12 THEN CivilTime(y, m + 1, d - DaysPerMonth(y, m), 0, 0, 0, 0)
    ELSE CivilTime(y + 1, 1, d - DaysPerMonth(y, m), 0, 0, 0, 0)

\* IsValidTime: the instant lies in the supported range, the years 1 to 9999.
IsValidTime(time) == time.year >= 1 /\ time.year <= 9999

\* ConvertTimeToTimestamp: whether the instant has a timestamp in microseconds.
ConvertTimeToTimestamp(time) == IsValidTime(time)

\* The timestamp in microseconds ConvertTimeToTimestamp writes.
TimestampMicros(time) == [time EXCEPT !.nanos = time.nanos - (time.nanos % 1000)]

\* MakeTimeZone: the zone of a name, or an error; UTC is the zone of the model.
MakeTimeZone(timezone_string_arg) ==
    IF timezone_string_arg = <<"U", "T", "C">>
    THEN [ok |-> TRUE, value |-> "UTC"]
    ELSE [ok |-> FALSE,
          status |-> MakeEvalError(<<"Invalid time zone: ", timezone_string_arg>>)]

-----------------------------------------------------------------------------
(* CastStringToTimestamp.                                                  *)

TimestampOverloads ==
    {"TimeZone,int64_t*", "string_view,int64_t*", "TimeZone,Time*", "string_view,Time*"}

\* The checks of the arguments, from the overload that was called down to the
\* overload that tokenizes.
CastStringToTimestampBegin ==
    /\ pc = "start"
    /\ entry = "CastStringToTimestamp"
    /\ LET takes_name == overload \in {"string_view,int64_t*", "string_view,Time*"}
           to_micros == overload \in {"TimeZone,int64_t*", "string_view,int64_t*"}
           invalid_utf8 == MakeEvalError(<<"Input string is not valid UTF-8">>)
           result ==
               IF takes_name /\ ~IsWellFormedUTF8(timezone_string) THEN invalid_utf8
               ELSE IF takes_name /\ ~MakeTimeZone(timezone_string).ok
               THEN MakeTimeZone(timezone_string).status
               ELSE IF to_micros
               THEN IF ~IsWellFormedUTF8(timestamp_string) \/ ~IsWellFormedUTF8(format_string)
                    THEN invalid_utf8 ELSE OkStatus
               ELSE IF ~IsWellFormedUTF8(format_string) \/ ~IsWellFormedUTF8(format_string)
                    THEN invalid_utf8 ELSE OkStatus
       IN  IF result = OkStatus
           THEN pc' = "tokenize" /\ UNCHANGED status
           ELSE pc' = "done" /\ status' = result
    /\ UNCHANGED cast_vars
    /\ UNCHANGED <<entry, format_string, out_type, processed_len, format_elements,
                   tokenizer_status>>

\* ParseTimeWithFormatElementsBegin that takes the day of the current instant
\* as it takes its month.
ParseTimeWithFormatElementsBegin_DayOfNow ==
    /\ pc = "parse"
    /\ processed_format_element_count' = 0
    /\ year' = cs_now.year
    /\ month' = cs_now.month
    /\ mday' = cs_now.day
    /\ error_in_parsing' = FALSE
    /\ timestamp_str_parsed_length' = 0 + TrimLeadingUnicodeWhiteSpaces(timestamp_string)
    /\ pc' = "parse_loop"
    /\ UNCHANGED <<overload, timestamp_string, timezone_string, cs_now, base_time,
                   timestamp, updated_format_string, out>>
    /\ UNCHANGED <<entry, format_string, out_type, processed_len, format_elements,
                   tokenizer_status, status>>

\* ParseTimeWithFormatElementsBegin without lines 502-503: the leading
\* whitespace of the input is left for the first element.
ParseTimeWithFormatElementsBegin_NoTrim ==
    /\ pc = "parse"
    /\ processed_format_element_count' = 0
    /\ year' = cs_now.year
    /\ month' = cs_now.month
    /\ mday' = 1
    /\ error_in_parsing' = FALSE
    /\ timestamp_str_parsed_length' = 0
    /\ pc' = "parse_loop"
    /\ UNCHANGED <<overload, timestamp_string, timezone_string, cs_now, base_time,
                   timestamp, updated_format_string, out>>
    /\ UNCHANGED <<entry, format_string, out_type, processed_len, format_elements,
                   tokenizer_status, status>>

\* The first lines of ParseTimeWithFormatElements, down to the loop.
ParseTimeWithFormatElementsBegin ==
    /\ pc = "parse"
    /\ processed_format_element_count' = 0
    /\ year' = cs_now.year
    /\ month' = cs_now.month
    /\ mday' = 1
    /\ error_in_parsing' = FALSE
    /\ timestamp_str_parsed_length' = 0 + TrimLeadingUnicodeWhiteSpaces(timestamp_string)
    /\ pc' = "parse_loop"
    /\ UNCHANGED <<overload, timestamp_string, timezone_string, cs_now, base_time,
                   timestamp, updated_format_string, out>>
    /\ UNCHANGED <<entry, format_string, out_type, processed_len, format_elements,
                   tokenizer_status, status>>

\* powers_of_ten as the powers of two.
powers_of_ten_OfTwo == <<1, 2, 4, 8, 16>>

powers_of_ten == <<1, 10, 100, 1000, 10000>>

\* The switch of the loop of ParseTimeWithFormatElements: parsed_length,
\* error_in_parsing and year after it.
ParseFormatElement(format_element, timestamp_str_to_parse, year_arg) ==
    LET type == format_element.type
        unwritten(parsed) ==
            [parsed_length |-> parsed, error_in_parsing |-> FALSE, year |-> year_arg]
    IN  CASE type \in {"kSimpleLiteral", "kDoubleQuotedLiteral"} ->
                 unwritten(ParseStringByExactMatch(timestamp_str_to_parse,
                                                   format_element.literal_value))
          [] type = "kWhitespace" ->
                 LET parsed == TrimLeadingUnicodeWhiteSpaces(timestamp_str_to_parse)
                 IN  [parsed_length |-> parsed, error_in_parsing |-> parsed = 0,
                      year |-> year_arg]
          [] type \in {"kYYYY", "kRRRR"} ->
                 LET res == ParseInt(timestamp_str_to_parse, 1, 5, 0, 10000)
                 IN  [parsed_length |-> res.parsed_width, error_in_parsing |-> FALSE,
                      year |-> IF res.parsed_width # npos THEN res.value ELSE year_arg]
          [] type \in {"kYYY", "kYY", "kY"} ->
                 LET element_length == format_element.len_in_format_str
                     element_length_power_of_ten == powers_of_ten[element_length + 1]
                     res == ParseInt(timestamp_str_to_parse, 1, element_length, 0,
                                     element_length_power_of_ten - 1)
                 IN  [parsed_length |-> res.parsed_width, error_in_parsing |-> FALSE,
                      year |-> IF res.parsed_width # npos
                               THEN year_arg - (year_arg % element_length_power_of_ten)
                                    + res.value
                               ELSE year_arg]
          [] type = "kRR" ->
                 LET res == ParseWithFormatElementOfTypeRR(timestamp_str_to_parse, year_arg)
                 IN  [parsed_length |-> res.parsed_length, error_in_parsing |-> FALSE,
                      year |-> res.year]
          [] type = "kYCommaYYY" ->
                 LET res == ParseWithFormatElementOfTypeYCommaYYY(timestamp_str_to_parse,
                                                                  year_arg)
                 IN  [parsed_length |-> res.parsed_length, error_in_parsing |-> FALSE,
                      year |-> res.year]
          [] OTHER -> unwritten(npos)

\* ParseTimeWithFormatElementsStep with line 599 outside the test of line 595:
\* parsed_length is added to the cursor after a failed element too.
ParseTimeWithFormatElementsStep_AdvanceOnFailure ==
    /\ pc = "parse_loop"
    /\ ~error_in_parsing
    /\ timestamp_str_parsed_length < Len(timestamp_string)
    /\ processed_format_element_count < Len(format_elements)
    /\ LET timestamp_str_to_parse == Substr(timestamp_string, timestamp_str_parsed_length)
           format_element == format_elements[processed_format_element_count + 1]
           res == ParseFormatElement(format_element, timestamp_str_to_parse, year)
           failed == res.error_in_parsing \/ res.parsed_length = npos
       IN  /\ year' = res.year
           /\ error_in_parsing' = failed
           /\ timestamp_str_parsed_length' = timestamp_str_parsed_length + res.parsed_length
           /\ IF ~failed
              THEN processed_format_element_count' = processed_format_element_count + 1
              ELSE UNCHANGED processed_format_element_count
    /\ UNCHANGED <<overload, timestamp_string, timezone_string, cs_now, base_time, month,
                   mday, timestamp, updated_format_string, out>>
    /\ UNCHANGED <<entry, format_string, out_type, pc, processed_len, format_elements,
                   tokenizer_status, status>>

\* One iteration of the loop of ParseTimeWithFormatElements.
ParseTimeWithFormatElementsStep ==
    /\ pc = "parse_loop"
    /\ ~error_in_parsing
    /\ timestamp_str_parsed_length < Len(timestamp_string)
    /\ processed_format_element_count < Len(format_elements)
    /\ LET timestamp_str_to_parse == Substr(timestamp_string, timestamp_str_parsed_length)
           format_element == format_elements[processed_format_element_count + 1]
           res == ParseFormatElement(format_element, timestamp_str_to_parse, year)
           failed == res.error_in_parsing \/ res.parsed_length = npos
       IN  /\ year' = res.year
           /\ error_in_parsing' = failed
           /\ IF ~failed
              THEN /\ processed_format_element_count' = processed_format_element_count + 1
                   /\ timestamp_str_parsed_length' =
                          timestamp_str_parsed_length + res.parsed_length
              ELSE UNCHANGED <<processed_format_element_count, timestamp_str_parsed_length>>
    /\ UNCHANGED <<overload, timestamp_string, timezone_string, cs_now, base_time, month,
                   mday, timestamp, updated_format_string, out>>
    /\ UNCHANGED <<entry, format_string, out_type, pc, processed_len, format_elements,
                   tokenizer_status, status>>

\* SkipEmptyQuotedLiterals that skips every quoted literal, empty or not.
RECURSIVE SkipEmptyQuotedLiterals_AnyQuoted(_, _)
SkipEmptyQuotedLiterals_AnyQuoted(elements, count) ==
    IF count < Len(elements) /\ elements[count + 1].type = "kDoubleQuotedLiteral"
    THEN SkipEmptyQuotedLiterals_AnyQuoted(elements, count + 1)
    ELSE count

\* The count of processed elements after the trailing empty quoted literals
\* from count on were skipped.
RECURSIVE SkipEmptyQuotedLiterals(_, _)
SkipEmptyQuotedLiterals(elements, count) ==
    IF /\ count < Len(elements)
       /\ elements[count + 1].type = "kDoubleQuotedLiteral"
       /\ elements[count + 1].literal_value = <<>>
    THEN SkipEmptyQuotedLiterals(elements, count + 1)
    ELSE count

\* ParseTimeWithFormatElements after its loop, and for the int64_t overloads the
\* conversion of its result: the call returns.
ParseTimeWithFormatElementsReturn ==
    /\ pc = "parse_loop"
    /\ \/ error_in_parsing
       \/ timestamp_str_parsed_length >= Len(timestamp_string)
       \/ processed_format_element_count >= Len(format_elements)
    /\ pc' = "done"
    /\ LET to_micros == overload \in {"TimeZone,int64_t*", "string_view,int64_t*"}
           parsed_length == timestamp_str_parsed_length + TrimLeadingUnicodeWhiteSpaces(
                                Substr(timestamp_string, timestamp_str_parsed_length))
           count == SkipEmptyQuotedLiterals(format_elements, processed_format_element_count)
           cs == CivilSecond(year, month, mday)
           parsed_time == cs
       IN  IF error_in_parsing
           THEN /\ status' = MakeEvalError(
                       <<"Failed to parse input timestamp string at ",
                         ToString(timestamp_str_parsed_length), " with format element ">>
                       \o ElementToString(format_elements[processed_format_element_count + 1]))
                /\ UNCHANGED <<processed_format_element_count, timestamp_str_parsed_length,
                               timestamp, base_time>>
           ELSE /\ timestamp_str_parsed_length' = parsed_length
                /\ processed_format_element_count' = count
                /\ IF parsed_length < Len(timestamp_string)
                   THEN /\ status' = MakeEvalError(
                               <<"Illegal non-space trailing data '">>
                               \o Substr(timestamp_string, parsed_length)
                               \o <<"' in timestamp string">>)
                        /\ UNCHANGED <<timestamp, base_time>>
                   ELSE IF count < Len(format_elements)
                   THEN /\ status' = MakeEvalError(
                               <<"Entire timestamp string has been parsed before dealing with",
                                 " format element ">>
                               \o ElementToString(format_elements[count + 1]))
                        /\ UNCHANGED <<timestamp, base_time>>
                   ELSE IF cs.year # year \/ cs.month # month \/ cs.day # mday
                   THEN /\ status' = MakeEvalError(
                               <<"Invalid result from year, month, day values after parsing">>)
                        /\ UNCHANGED <<timestamp, base_time>>
                   ELSE IF ~to_micros
                   THEN /\ timestamp' = parsed_time
                        /\ status' = IF IsValidTime(parsed_time) THEN OkStatus
                                     ELSE MakeEvalError(
                                         <<"The parsing result is out of valid time range">>)
                        /\ UNCHANGED base_time
                   ELSE /\ base_time' = parsed_time
                        /\ IF ~IsValidTime(parsed_time)
                           THEN /\ status' = MakeEvalError(
                                       <<"The parsing result is out of valid time range">>)
                                /\ UNCHANGED timestamp
                           ELSE IF ~ConvertTimeToTimestamp(parsed_time)
                           THEN /\ status' = MakeEvalError(
                                       <<"Invalid result from parsing function">>)
                                /\ UNCHANGED timestamp
                           ELSE /\ timestamp' = TimestampMicros(parsed_time)
                                /\ status' = OkStatus
    /\ UNCHANGED <<overload, timestamp_string, timezone_string, cs_now, year, month, mday,
                   error_in_parsing, updated_format_string, out>>
    /\ UNCHANGED <<entry, format_string, out_type, processed_len, format_elements,
                   tokenizer_status>>

\* A call of CastStringToTimestamp.
NextCastStringToTimestamp ==
    \/ CastStringToTimestampBegin
    \/ GetDateTimeFormatElementsStep
    \/ GetDateTimeFormatElementsReturn
    \/ CastStringToTimestampValidate
    \/ ParseTimeWithFormatElementsBegin
    \/ ParseTimeWithFormatElementsStep
    \/ ParseTimeWithFormatElementsReturn

\* A call of an overload of CastStringToTimestamp at noon of 4 July of one of
\* the years; the overloads that take a TimeZone are given the UTC zone.
InitCastStringToTimestampOf(overloads, zone_names, format_strings, timestamp_strings, current_years) ==
    /\ entry = "CastStringToTimestamp"
    /\ out_type = "TYPE_TIMESTAMP"
    /\ overload \in overloads
    /\ format_string \in format_strings
    /\ timestamp_string \in timestamp_strings
    /\ timezone_string \in IF overload \in {"string_view,int64_t*", "string_view,Time*"}
                           THEN zone_names ELSE {<<"U", "T", "C">>}
    /\ cs_now \in {CivilTime(y, 7, 4, 12, 0, 0, 0) : y \in current_years}
    /\ pc = "start"
    /\ processed_len = 0
    /\ format_elements = <<>>
    /\ tokenizer_status = NoStatus
    /\ status = NoStatus
    /\ base_time = CivilTime(1970, 1, 1, 0, 0, 0, 0)
    /\ processed_format_element_count = 0
    /\ timestamp_str_parsed_length = 0
    /\ year = 0
    /\ month = 0
    /\ mday = 0
    /\ error_in_parsing = FALSE
    /\ timestamp = Unwritten
    /\ updated_format_string = <<>>
    /\ out = UnwrittenString

\* A call of CastStringToTimestamp with a TimeZone.
InitCastStringToTimestamp(format_strings, timestamp_strings, current_years) ==
    InitCastStringToTimestampOf({"TimeZone,int64_t*", "TimeZone,Time*"}, {<<"U", "T", "C">>},
                                format_strings, timestamp_strings, current_years)

\* Two-digit years on both sides of 50, alone and next to other bytes.
RRPieces == {<<"0">>, <<"1">>, <<"2">>, <<"5">>, <<"-">>, <<" ">>}

MaxRRPieces == 3

RRFormats == {<<"R", "R">>, <<"-", "R", "R">>, <<"R", "R", "-">>}

\* Current years whose last two digits lie on both sides of 50.
RRCurrentYears == {1950, 2002, 2049, 2299}

InitRR == InitCastStringToTimestamp(RRFormats, ConcatsOf(RRPieces, MaxRRPieces), RRCurrentYears)

SpecRR == InitRR /\ [][NextCastStringToTimestamp]_vars

\* High parts of one and two digits up to and past 10, the comma, low parts
\* of two, three and four digits.
YCommaYYYPieces ==
    {<<"1">>, <<"1", "0">>, <<"1", "1">>, <<",">>, <<"0", "0", "0">>, <<"2", "3", "4">>,
     <<"2", "3">>, <<" ">>}

MaxYCommaYYYPieces == 3

YCommaYYYFormats == {<<"Y", ",", "Y", "Y", "Y">>, <<"y", ",", "y", "y", "y">>}

InitYCommaYYY ==
    InitCastStringToTimestamp(YCommaYYYFormats,
                              ConcatsOf(YCommaYYYPieces, MaxYCommaYYYPieces), {2000})

SpecYCommaYYY == InitYCommaYYY /\ [][NextCastStringToTimestamp]_vars

\* A literal, a digit, and whitespace of one and two code points: a space, a
\* no-break space (U+00A0), a space and a tab.
WhitespacePieces == {<<"-">>, <<"2">>, <<" ">>, <<"0xC2", "0xA0">>, <<" ", "\t">>}

MaxWhitespacePieces == 3

\* Whitespace elements of one and two spaces, after and before other elements.
WhitespaceFormats ==
    {<<"-", " ">>, <<"-", " ", "-">>, <<"-", " ", " ", "-">>, <<" ", "-">>,
     <<"Y", "Y", "Y", "Y", " ">>}

InitWhitespace ==
    InitCastStringToTimestamp(WhitespaceFormats,
                              ConcatsOf(WhitespacePieces, MaxWhitespacePieces), {2000})

SpecWhitespace == InitWhitespace /\ [][NextCastStringToTimestamp]_vars

\* Years, months and days as the digits of a date, and a separator.
YMDPieces ==
    {<<"2", "0", "2", "0">>, <<"2", "0", "2", "1">>, <<"0", "2">>, <<"2", "9">>,
     <<"0", "2", "2", "9">>, <<"-">>}

MaxYMDPieces == 3

YMDFormats ==
    {<<"Y", "Y", "Y", "Y">>, <<"Y", "Y", "Y", "Y", "M", "M">>,
     <<"Y", "Y", "Y", "Y", "M", "M", "D", "D">>,
     <<"Y", "Y", "Y", "Y", "-", "M", "M", "-", "D", "D">>}

InitYMD == InitCastStringToTimestamp(YMDFormats, ConcatsOf(YMDPieces, MaxYMDPieces), {2000, 2021})

SpecYMD == InitYMD /\ [][NextCastStringToTimestamp]_vars

\* Digits that concatenate to years of one to six digits, below and above
\* 10000, and a byte that is no digit.
YYYYPieces == {<<"1">>, <<"1", "2">>, <<"0">>, <<"0", "0">>, <<"9">>, <<"-">>}

MaxYYYYPieces == 3

YYYYFormats == {<<"Y", "Y", "Y", "Y">>, <<"r", "r", "r", "r">>, <<"-", "Y", "Y", "Y", "Y">>}

InitYYYY ==
    InitCastStringToTimestamp(YYYYFormats, ConcatsOf(YYYYPieces, MaxYYYYPieces), {1970, 2000})

SpecYYYY == InitYYYY /\ [][NextCastStringToTimestamp]_vars

\* Digits that concatenate to year parts of one to four digits and more, and a
\* byte that is no digit.
YYYPieces == {<<"1">>, <<"1", "2">>, <<"1", "2", "3">>, <<"0">>, <<"7">>, <<"-">>}

MaxYYYPieces == 3

YYYFormats == {<<"Y">>, <<"Y", "Y">>, <<"Y", "Y", "Y">>, <<"y", "y", "-">>}

InitYYY ==
    InitCastStringToTimestamp(YYYFormats, ConcatsOf(YYYPieces, MaxYYYPieces), {1970, 2021})

SpecYYY == InitYYY /\ [][NextCastStringToTimestamp]_vars

\* A literal, a digit, whitespace of one and two bytes.
TerminationPieces == {<<"-">>, <<"2">>, <<" ">>, <<"0xC2", "0xA0">>}

MaxTerminationPieces == 3

\* Empty quoted literals at the end, in the middle and alone; a quoted literal
\* that is not empty at the end.
TerminationFormats ==
    {<<>>, <<"\"", "\"">>, <<"-", "\"", "\"", "\"", "\"">>, <<"-", "\"", "\"", "-">>,
     <<"Y", "Y", "Y", "Y", "\"", "\"", "-">>, <<"-", "\"", "2", "\"">>,
     <<"-", "\"", "\"", "\"", "2", "\"", "\"", "\"">>}

InitTermination ==
    InitCastStringToTimestamp(TerminationFormats,
                              ConcatsOf(TerminationPieces, MaxTerminationPieces), {2000})

SpecTermination == InitTermination /\ [][NextCastStringToTimestamp]_vars

\* The formats above, and formats of keywords, whitespace and punctuation,
\* one with a quote that is never closed and one with a letter that starts no
\* keyword.
LoopFormats ==
    TerminationFormats \cup
    {<<" ", "Y", "Y", "Y", "Y">>, <<"Y", "Y", "Y", "Y", " ", " ", "M", "M">>,
     <<"H", "H", "2", "4", ":", "M", "I">>, <<"Y", ",", "Y", "Y", "Y">>,
     <<"-", "\"", "2">>, <<"-", "-", "x">>}

InitLoop ==
    InitCastStringToTimestamp(LoopFormats,
                              ConcatsOf(TerminationPieces, MaxTerminationPieces), {2000})

SpecLoop == InitLoop /\ [][NextCastStringToTimestamp]_vars

\* The call runs on: the code is sequential, so a call that has not returned
\* takes its next step.  Every state before the return has a next step (the
\* branches of each loop body are exhaustive), so this is weak fairness,
\* WF_vars(NextCastStringToTimestamp), with the enabling condition written
\* out as pc # "done".
SpecLoopFair ==
    SpecLoop /\ ([]<>(pc = "done") \/ []<><<NextCastStringToTimestamp>>_vars)

\* One keyword for each element type IsSupportedForParsing admits and the
\* parser's switch has no case for, next to the keywords validation asks for
\* with it: HH and HH12 come with a meridian indicator and the other way round.
UnimplementedKeywords ==
    {<<"M", "M">>, <<"M", "O", "N">>, <<"M", "O", "N", "T", "H">>, <<"D", "D">>,
     <<"D", "D", "D">>, <<"H", "H", "2", "4">>, <<"M", "I">>, <<"S", "S">>,
     <<"S", "S", "S", "S", "S">>, <<"F", "F", "3">>, <<"T", "Z", "H">>, <<"T", "Z", "M">>,
     <<"H", "H", "A", "M">>, <<"H", "H", "1", "2", "P", "M">>, <<"A", "M", "H", "H">>,
     <<"P", "M", "H", "H">>, <<"A", ".", "M", ".", "H", "H">>,
     <<"P", ".", "M", ".", "H", "H", "1", "2">>}

\* Each keyword alone, after a literal, before a literal and after a year.
UnimplementedFormats ==
    UnimplementedKeywords
    \cup {<<"-">> \o k : k \in UnimplementedKeywords}
    \cup {k \o <<"-">> : k \in UnimplementedKeywords}
    \cup {<<"Y", "Y", "Y", "Y">> \o k : k \in UnimplementedKeywords}

\* Text the elements would match were they implemented, and a literal.
UnimplementedPieces == {<<"0", "7">>, <<"A", "M">>, <<"-">>}

MaxUnimplementedPieces == 3

InitUnimplemented ==
    InitCastStringToTimestamp(UnimplementedFormats,
                              ConcatsOf(UnimplementedPieces, MaxUnimplementedPieces), {2000})

SpecUnimplemented == InitUnimplemented /\ [][NextCastStringToTimestamp]_vars

\* Whitespace of one and two bytes, a digit and a literal.
LeadingWhitespacePieces == {<<" ">>, <<"\t">>, <<"0xC2", "0xA0">>, <<"2">>, <<"-">>}

MaxLeadingWhitespacePieces == 3

\* Formats that begin with a Whitespace element, alone, before other elements
\* and after an empty quoted literal; a format that ends with one.
LeadingWhitespaceFormats ==
    {<<" ", "Y", "Y", "Y", "Y">>, <<" ">>, <<" ", " ", "-">>,
     <<"\"", "\"", " ", "Y", "Y", "Y", "Y">>, <<"\"", "\"", " ">>,
     <<"Y", "Y", "Y", "Y", " ">>}

InitLeadingWhitespace ==
    InitCastStringToTimestamp(LeadingWhitespaceFormats,
                              ConcatsOf(LeadingWhitespacePieces, MaxLeadingWhitespacePieces),
                              {2000})

SpecLeadingWhitespace == InitLeadingWhitespace /\ [][NextCastStringToTimestamp]_vars

-----------------------------------------------------------------------------
(* The formatter.                                                          *)

LetterToLower(c) == IF ascii_isupper(c) THEN LowerLetters[IndexIn(c, UpperLetters)] ELSE c

AsciiStrToLower(str) == [i \in 1..Len(str) |-> LetterToLower(str[i])]

\* The decimal digits of a natural number.
RECURSIVE DecimalDigits(_)
DecimalDigits(n) ==
    IF n < 10 THEN <<Digits[n + 1]>>
    ELSE Append(DecimalDigits(n \div 10), Digits[(n % 10) + 1])

\* ZeroPadded keeping only the last digit of the number.
ZeroPadded_LastDigit(width, n) ==
    [i \in 1..(width - 1) |-> "0"] \o <<Digits[(n % 10) + 1]>>

\* absl::StrFormat("%0*d", width, n) of a natural number.
ZeroPadded(width, n) ==
    LET digits == DecimalDigits(n)
    IN  [i \in 1..(width - Len(digits)) |-> "0"] \o digits

\* The names absl::FormatTime has for the months and the days of the week.
MonthNames ==
    <<<<"J", "a", "n", "u", "a", "r", "y">>,
      <<"F", "e", "b", "r", "u", "a", "r", "y">>,
      <<"M", "a", "r", "c", "h">>,
      <<"A", "p", "r", "i", "l">>,
      <<"M", "a", "y">>,
      <<"J", "u", "n", "e">>,
      <<"J", "u", "l", "y">>,
      <<"A", "u", "g", "u", "s", "t">>,
      <<"S", "e", "p", "t", "e", "m", "b", "e", "r">>,
      <<"O", "c", "t", "o", "b", "e", "r">>,
      <<"N", "o", "v", "e", "m", "b", "e", "r">>,
      <<"D", "e", "c", "e", "m", "b", "e", "r">>>>

WeekdayNames ==
    <<<<"S", "u", "n", "d", "a", "y">>,
      <<"M", "o", "n", "d", "a", "y">>,
      <<"T", "u", "e", "s", "d", "a", "y">>,
      <<"W", "e", "d", "n", "e", "s", "d", "a", "y">>,
      <<"T", "h", "u", "r", "s", "d", "a", "y">>,
      <<"F", "r", "i", "d", "a", "y">>,
      <<"S", "a", "t", "u", "r", "d", "a", "y">>>>

\* The days from 1970-01-01 to the civil day (negative before it).
DaysFromCivil(y, m, d) ==
    LET yy == IF m <= 2 THEN y - 1 ELSE y
        era == yy \div 400
        yoe == yy - era * 400
        mp == IF m > 2 THEN m - 3 ELSE m + 9
        doy == (153 * mp + 2) \div 5 + d - 1
        doe == yoe * 365 + yoe \div 4 - yoe \div 100 + doy
    IN  era * 146097 + doe - 719468

\* absl::GetWeekday as the index from Sunday = 0.
GetWeekday(cs) == (DaysFromCivil(cs.year, cs.month, cs.day) + 4) % 7

DayOfWeekIntegerSunToSat1To7(weekday) == weekday + 1

\* The day of the year, 1 on 1 January.
GetYearDay(cs) == DaysFromCivil(cs.year, cs.month, cs.day) - DaysFromCivil(cs.year, 1, 1) + 1

\* absl::FormatTime of one conversion specifier, in the UTC zone.
FormatSpecifier(specifier, time) ==
    CASE specifier = <<"%", "m">> -> ZeroPadded(2, time.month)
      [] specifier = <<"%", "b">> -> SubSeq(MonthNames[time.month], 1, 3)
      [] specifier = <<"%", "B">> -> MonthNames[time.month]
      [] specifier = <<"%", "d">> -> ZeroPadded(2, time.day)
      [] specifier = <<"%", "j">> -> ZeroPadded(3, GetYearDay(time))
      [] specifier = <<"%", "A">> -> WeekdayNames[GetWeekday(time) + 1]
      [] specifier = <<"%", "a">> -> SubSeq(WeekdayNames[GetWeekday(time) + 1], 1, 3)
      [] specifier = <<"%", "I">> -> ZeroPadded(2, ((time.hour + 11) % 12) + 1)
      [] specifier = <<"%", "H">> -> ZeroPadded(2, time.hour)
      [] specifier = <<"%", "M">> -> ZeroPadded(2, time.minute)
      [] specifier = <<"%", "S">> -> ZeroPadded(2, time.second)
      [] Len(specifier) = 4 /\ SubSeq(specifier, 1, 2) = <<"%", "E">> /\ specifier[4] = "f" ->
             SubSeq(ZeroPadded(9, time.nanos), 1, DigitsValue(<<specifier[3]>>))

\* absl::FormatTime on the strings FromDateTimeFormatElementToFormatString
\* gives: one conversion specifier, or text without '%', which is copied.
FormatTime(format, time) ==
    IF format # <<>> /\ format[1] = "%" THEN FormatSpecifier(format, time) ELSE format

\* FromDateTimeFormatElementToFormatString of the meridian indicators with noon
\* in the afternoon: hour >= 12 in the place of hour > 12.
FromDateTimeFormatElementToFormatString_NoonIsPM(format_element, info_cs) ==
    LET type == format_element.type
    IN  CASE type \in {"kAM", "kPM"} ->
                 [ok |-> TRUE,
                  value |-> IF info_cs.hour >= 12 THEN <<"P", "M">> ELSE <<"A", "M">>]
          [] type \in {"kAMWithDots", "kPMWithDots"} ->
                 [ok |-> TRUE,
                  value |-> IF info_cs.hour >= 12 THEN <<"P", ".", "M", ".">>
                                                  ELSE <<"A", ".", "M", ".">>]
          [] OTHER ->
                 [ok |-> FALSE,
                  status |-> MakeEvalError(<<"Unsupported format element ">>
                                           \o ElementToString(format_element))]

\* StatusOr<std::string>; info.cs is the civil time of base_time in the zone.
FromDateTimeFormatElementToFormatString(format_element, info_cs) ==
    LET type == format_element.type
        ok(str) == [ok |-> TRUE, value |-> str]
    IN  CASE type \in {"kSimpleLiteral", "kDoubleQuotedLiteral"} ->
                 ok(format_element.literal_value)
          [] type = "kWhitespace" ->
                 ok([i \in 1..format_element.len_in_format_str |-> " "])
          [] type \in {"kYYYY", "kYYY", "kYY", "kY", "kRRRR", "kRR"} ->
                 LET element_length == format_element.len_in_format_str
                     trunc_year == info_cs.year % powers_of_ten[element_length + 1]
                 IN  ok(ZeroPadded(format_element.len_in_format_str,
                                   IF element_length = 4 THEN info_cs.year ELSE trunc_year))
          [] type = "kMM" -> ok(<<"%", "m">>)
          [] type = "kMON" -> ok(<<"%", "b">>)
          [] type = "kMONTH" -> ok(<<"%", "B">>)
          [] type = "kD" ->
                 ok(DecimalDigits(DayOfWeekIntegerSunToSat1To7(GetWeekday(info_cs))))
          [] type = "kDD" -> ok(<<"%", "d">>)
          [] type = "kDDD" -> ok(<<"%", "j">>)
          [] type = "kDAY" -> ok(<<"%", "A">>)
          [] type = "kDY" -> ok(<<"%", "a">>)
          [] type \in {"kHH", "kHH12"} -> ok(<<"%", "I">>)
          [] type = "kHH24" -> ok(<<"%", "H">>)
          [] type = "kMI" -> ok(<<"%", "M">>)
          [] type = "kSS" -> ok(<<"%", "S">>)
          [] type = "kSSSSS" ->
                 ok(ZeroPadded(5, info_cs.hour * 3600 + info_cs.minute * 60 + info_cs.second))
          [] type = "kFFN" ->
                 ok(<<"%", "E", Digits[format_element.subsecond_digit_count + 1], "f">>)
          [] type \in {"kAM", "kPM"} ->
                 ok(IF info_cs.hour > 12 THEN <<"P", "M">> ELSE <<"A", "M">>)
          [] type \in {"kAMWithDots", "kPMWithDots"} ->
                 ok(IF info_cs.hour > 12 THEN <<"P", ".", "M", ".">>
                                         ELSE <<"A", ".", "M", ".">>)
          [] type = "kTZH" -> ok(<<"+">> \o ZeroPadded(2, 0))
          [] type = "kTZM" -> ok(ZeroPadded(2, 0))
          [] OTHER ->
                 [ok |-> FALSE,
                  status |-> MakeEvalError(<<"Unsupported format element ">>
                                           \o ElementToString(format_element))]

\* ResolveFormatString that leaves the text as FormatTime gave it.
ResolveFormatString_NoCasing(format_element, base_time_arg) ==
    LET format == FromDateTimeFormatElementToFormatString(format_element, base_time_arg)
    IN  IF ~format.ok THEN format
        ELSE IF format_element.category = "kLiteral" THEN format
        ELSE [ok |-> TRUE, value |-> FormatTime(format.value, base_time_arg)]

\* StatusOr<std::string>, in the UTC zone.
ResolveFormatString(format_element, base_time_arg) ==
    LET format == FromDateTimeFormatElementToFormatString(format_element, base_time_arg)
        resolved_string == FormatTime(format.value, base_time_arg)
        casing == format_element.format_casing_type
    IN  IF ~format.ok THEN format
        ELSE IF format_element.category = "kLiteral" THEN format
        ELSE CASE casing = "kFormatCasingTypeUnspecified" ->
                      [ok |-> FALSE,
                       status |-> MakeEvalError(<<"Format casing type is unspecified">>)]
               [] casing \in {"kPreserveCase", "kOnlyFirstLetterUppercase"} ->
                      [ok |-> TRUE, value |-> resolved_string]
               [] casing = "kAllLettersUppercase" ->
                      [ok |-> TRUE, value |-> AsciiStrToUpper(resolved_string)]
               [] casing = "kAllLettersLowercase" ->
                      [ok |-> TRUE, value |-> AsciiStrToLower(resolved_string)]

-----------------------------------------------------------------------------
(* CastFormatDateToString, CastFormatDatetimeToString, CastFormatTimeToString *)
(* and CastFormatTimestampToString.                                        *)

\* IsValidDate, DatetimeValue::IsValid and TimeValue::IsValid on a value given
\* by its civil fields: a day of the years 1 to 9999 and a time of the day.
IsValidCivilValue(value) ==
    /\ value.year >= 1 /\ value.year <= 9999
    /\ value.month \in 1..12
    /\ value.day >= 1 /\ value.day <= DaysPerMonth(value.year, value.month)
    /\ value.hour \in 0..23 /\ value.minute \in 0..59 /\ value.second \in 0..59
    /\ value.nanos >= 0 /\ value.nanos <= 999999999

\* The first lines of an entry point: pc goes to the tokenizer when the check
\* of the arguments gave OkStatus, and the call returns the error otherwise.
FormatterBegin(result) ==
    /\ pc = "start"
    /\ IF result = OkStatus
       THEN pc' = "tokenize" /\ UNCHANGED status
       ELSE pc' = "done" /\ status' = result
    /\ UNCHANGED cast_vars
    /\ UNCHANGED <<entry, format_string, out_type, processed_len, format_elements,
                   tokenizer_status>>

InvalidFormatUTF8 == MakeEvalError(<<"Format string is not a valid UTF-8 string.">>)

CastFormatDateToStringBegin ==
    /\ entry = "CastFormatDateToString"
    /\ FormatterBegin(IF ~IsWellFormedUTF8(format_string) THEN InvalidFormatUTF8
                      ELSE IF ~IsValidCivilValue(base_time)
                      THEN MakeEvalError(<<"Invalid date value: ", base_time>>)
                      ELSE OkStatus)

CastFormatDatetimeToStringBegin ==
    /\ entry = "CastFormatDatetimeToString"
    /\ FormatterBegin(IF ~IsWellFormedUTF8(format_string) THEN InvalidFormatUTF8
                      ELSE IF ~IsValidCivilValue(base_time)
                      THEN MakeEvalError(<<"Invalid datetime value: ", base_time>>)
                      ELSE OkStatus)

CastFormatTimeToStringBegin ==
    /\ entry = "CastFormatTimeToString"
    /\ FormatterBegin(IF ~IsWellFormedUTF8(format_string) THEN InvalidFormatUTF8
                      ELSE IF ~IsValidCivilValue(base_time)
                      THEN MakeEvalError(<<"Invalid time value: ", base_time>>)
                      ELSE OkStatus)

FormatTimestampOverloads ==
    {"int64_t,TimeZone", "int64_t,string_view", "Time,string_view", "Time,TimeZone"}

\* The checks of the arguments, from the overload that was called down to the
\* overload that tokenizes.
CastFormatTimestampToStringBegin ==
    /\ entry = "CastFormatTimestampToString"
    /\ FormatterBegin(
           IF ~IsWellFormedUTF8(format_string) THEN InvalidFormatUTF8
           ELSE IF overload = "int64_t,string_view" /\ ~IsWellFormedUTF8(timezone_string)
           THEN MakeEvalError(<<"Timezone string is not a valid UTF-8 string.">>)
           ELSE IF overload \in {"int64_t,string_view", "Time,string_view"}
                   /\ ~MakeTimeZone(timezone_string).ok
           THEN MakeTimeZone(timezone_string).status
           ELSE OkStatus)

\* FromCastFormatTimestampToStringInternal without its IsValidTime check.
FromCastFormatTimestampToStringInternalBegin_NoIsValidTime ==
    /\ pc = "format"
    /\ updated_format_string' = <<>>
    /\ processed_format_element_count' = 0
    /\ pc' = "render"
    /\ UNCHANGED <<status, overload, timestamp_string, timezone_string, cs_now, base_time,
                   timestamp_str_parsed_length, year, month, mday, error_in_parsing,
                   timestamp, out>>
    /\ UNCHANGED <<entry, format_string, out_type, processed_len, format_elements,
                   tokenizer_status>>

\* The first lines of FromCastFormatTimestampToStringInternal.
FromCastFormatTimestampToStringInternalBegin ==
    /\ pc = "format"
    /\ IF ~IsValidTime(base_time)
       THEN /\ status' = MakeEvalError(<<"Invalid timestamp value: ", base_time>>)
            /\ pc' = "done"
            /\ UNCHANGED <<updated_format_string, processed_format_element_count>>
       ELSE /\ updated_format_string' = <<>>
            /\ processed_format_element_count' = 0
            /\ pc' = "render"
            /\ UNCHANGED status
    /\ UNCHANGED <<overload, timestamp_string, timezone_string, cs_now, base_time,
                   timestamp_str_parsed_length, year, month, mday, error_in_parsing,
                   timestamp, out>>
    /\ UNCHANGED <<entry, format_string, out_type, processed_len, format_elements,
                   tokenizer_status>>

\* One iteration of the loop of FromCastFormatTimestampToStringInternal.
ResolveFormatStringStep ==
    /\ pc = "render"
    /\ processed_format_element_count < Len(format_elements)
    /\ LET format_element == format_elements[processed_format_element_count + 1]
           str_format == ResolveFormatString(format_element, base_time)
       IN  IF str_format.ok
           THEN /\ updated_format_string' = updated_format_string \o str_format.value
                /\ processed_format_element_count' = processed_format_element_count + 1
                /\ UNCHANGED <<pc, status>>
           ELSE /\ status' = str_format.status
                /\ pc' = "done"
                /\ UNCHANGED <<updated_format_string, processed_format_element_count>>
    /\ UNCHANGED <<overload, timestamp_string, timezone_string, cs_now, base_time,
                   timestamp_str_parsed_length, year, month, mday, error_in_parsing,
                   timestamp, out>>
    /\ UNCHANGED <<entry, format_string, out_type, processed_len, format_elements,
                   tokenizer_status>>

\* FromCastFormatTimestampToStringInternal returns updated_format_string and
\* the entry point assigns it to *out.
FromCastFormatTimestampToStringInternalReturn ==
    /\ pc = "render"
    /\ processed_format_element_count >= Len(format_elements)
    /\ out' = updated_format_string
    /\ status' = OkStatus
    /\ pc' = "done"
    /\ UNCHANGED <<overload, timestamp_string, timezone_string, cs_now, base_time,
                   processed_format_element_count, timestamp_str_parsed_length, year,
                   month, mday, error_in_parsing, timestamp, updated_format_string>>
    /\ UNCHANGED <<entry, format_string, out_type, processed_len, format_elements,
                   tokenizer_status>>

\* A call of a CastFormat*ToString entry point with the value and the zone name.
InitCastFormatToString(entries, format_strings, values, zone_names) ==
    /\ \/ entry = "CastFormatDateToString" /\ out_type = "TYPE_DATE" /\ overload = "only"
       \/ entry = "CastFormatDatetimeToString" /\ out_type = "TYPE_DATETIME"
              /\ overload = "only"
       \/ entry = "CastFormatTimeToString" /\ out_type = "TYPE_TIME" /\ overload = "only"
       \/ entry = "CastFormatTimestampToString" /\ out_type = "TYPE_TIMESTAMP"
              /\ overload \in FormatTimestampOverloads
    /\ entry \in entries
    /\ format_string \in format_strings
    /\ base_time \in values
    /\ timezone_string \in IF overload \in {"int64_t,string_view", "Time,string_view"}
                           THEN zone_names ELSE {<<"U", "T", "C">>}
    /\ entry = "CastFormatDateToString"
           => base_time.hour = 0 /\ base_time.minute = 0 /\ base_time.second = 0
              /\ base_time.nanos = 0
    /\ entry = "CastFormatTimeToString"
           => base_time.year = 1970 /\ base_time.month = 1 /\ base_time.day = 1
    /\ overload \in {"int64_t,TimeZone", "int64_t,string_view"} => base_time.nanos % 1000 = 0
    /\ timestamp_string = <<>>
    /\ cs_now = CivilTime(2000, 1, 1, 0, 0, 0, 0)
    /\ pc = "start"
    /\ processed_len = 0
    /\ format_elements = <<>>
    /\ tokenizer_status = NoStatus
    /\ status = NoStatus
    /\ processed_format_element_count = 0
    /\ timestamp_str_parsed_length = 0
    /\ year = 0
    /\ month = 0
    /\ mday = 0
    /\ error_in_parsing = FALSE
    /\ timestamp = Unwritten
    /\ updated_format_string = <<>>
    /\ out = UnwrittenString

\* A call of a CastFormat*ToString entry point.
NextCastFormatToString ==
    \/ CastFormatDateToStringBegin
    \/ CastFormatDatetimeToStringBegin
    \/ CastFormatTimeToStringBegin
    \/ CastFormatTimestampToStringBegin
    \/ GetDateTimeFormatElementsStep
    \/ GetDateTimeFormatElementsReturn
    \/ CastFormatDateToStringValidate
    \/ CastFormatDatetimeToStringValidate
    \/ CastFormatTimeToStringValidate
    \/ FromCastFormatTimestampToStringInternalBegin
    \/ ResolveFormatStringStep
    \/ FromCastFormatTimestampToStringInternalReturn

\* Format strings of the date 2021-07-04, month and day names in the three
\* casings, a quoted literal with letters, a separator, a meridian indicator.
RenderPieces ==
    {<<"Y", "Y", "Y", "Y", "-", "M", "M", "-", "D", "D">>, <<"M", "o", "n", "t", "h">>,
     <<"M", "O", "N", "T", "H">>, <<"m", "o", "n", "t", "h">>, <<"D", "y">>,
     <<"\"", "M", "o", "n", "\"">>, <<"-">>, <<"p", "m">>}

MaxRenderPieces == 2

\* A Sunday, a leap day, an afternoon, and the afternoon as a time of day.
RenderValues ==
    {CivilTime(2021, 7, 4, 0, 0, 0, 0), CivilTime(2020, 2, 29, 0, 0, 0, 0),
     CivilTime(2021, 7, 4, 13, 5, 9, 0), CivilTime(1970, 1, 1, 13, 5, 9, 0)}

RenderEntries ==
    {"CastFormatDateToString", "CastFormatDatetimeToString", "CastFormatTimeToString",
     "CastFormatTimestampToString"}

InitRender ==
    InitCastFormatToString(RenderEntries, ConcatsOf(RenderPieces, MaxRenderPieces),
                           RenderValues, {<<"U", "T", "C">>})

SpecRender == InitRender /\ [][NextCastFormatToString]_vars

\* The meridian indicators, with and without dots, in capitals and in small
\* letters.
MeridianPieces ==
    {<<"A", "M">>, <<"P", "M">>, <<"a", "m">>, <<"p", "m">>, <<"A", ".", "M", ".">>,
     <<"P", ".", "M", ".">>, <<"a", ".", "m", ".">>, <<"-">>}

MaxMeridianPieces == 2

\* Midnight, the last second of the morning, noon, half past noon, 13:00 and
\* the last hour of the day.
MeridianValues ==
    {CivilTime(1970, 1, 1, 0, 0, 0, 0), CivilTime(1970, 1, 1, 11, 59, 59, 0),
     CivilTime(1970, 1, 1, 12, 0, 0, 0), CivilTime(1970, 1, 1, 12, 30, 0, 0),
     CivilTime(1970, 1, 1, 13, 0, 0, 0), CivilTime(1970, 1, 1, 23, 0, 0, 0)}

InitMeridian ==
    InitCastFormatToString(RenderEntries, ConcatsOf(MeridianPieces, MaxMeridianPieces),
                           MeridianValues, {<<"U", "T", "C">>})

SpecMeridian == InitMeridian /\ [][NextCastFormatToString]_vars

\* A keyword of each element type FromDateTimeFormatElementToFormatString has
\* no case for.
UnsupportedKeywords ==
    {<<"Y", ",", "Y", "Y", "Y">>, <<"I", "Y", "Y", "Y">>, <<"I", "Y", "Y">>,
     <<"I", "Y">>, <<"I">>, <<"S", "Y", "Y", "Y", "Y">>, <<"Y", "E", "A", "R">>,
     <<"S", "Y", "E", "A", "R">>, <<"R", "M">>, <<"J">>, <<"C", "C">>,
     <<"S", "C", "C">>, <<"Q">>, <<"I", "W">>, <<"W", "W">>, <<"W">>, <<"A", "D">>,
     <<"B", "C">>, <<"A", ".", "D", ".">>, <<"B", ".", "C", ".">>, <<"S", "P">>,
     <<"T", "H">>, <<"S", "P", "T", "H">>, <<"T", "H", "S", "P">>, <<"F", "M">>}

\* A keyword of each element type it has a case for, and the three literals.
RenderableKeywords ==
    {<<"Y", "Y", "Y", "Y">>, <<"Y", "Y", "Y">>, <<"Y", "Y">>, <<"Y">>,
     <<"R", "R", "R", "R">>, <<"R", "R">>, <<"M", "M">>, <<"M", "O", "N">>,
     <<"M", "O", "N", "T", "H">>, <<"D">>, <<"D", "D">>, <<"D", "D", "D">>,
     <<"D", "A", "Y">>, <<"D", "Y">>, <<"H", "H">>, <<"H", "H", "1", "2">>,
     <<"H", "H", "2", "4">>, <<"M", "I">>, <<"S", "S">>, <<"S", "S", "S", "S", "S">>,
     <<"F", "F", "3">>, <<"A", "M">>, <<"P", "M">>, <<"A", ".", "M", ".">>,
     <<"P", ".", "M", ".">>, <<"T", "Z", "H">>, <<"T", "Z", "M">>, <<"-">>, <<" ">>,
     <<"\"", "x", "\"">>}

\* A letter that starts no keyword and a quote that is never closed.
UntokenizedPieces == {<<"x">>, <<"\"">>}

\* What follows the first piece of a format string: an element with a case, two
\* without, a literal.
FollowingPieces == {<<"M", "M">>, <<"Q">>, <<"T", "H">>, <<"-">>}

MaxUnsupportedPieces == 2

\* Each piece alone and followed by up to MaxUnsupportedPieces - 1 of the
\* following pieces.
UnsupportedFormats ==
    {k \o following : k \in UnsupportedKeywords \cup RenderableKeywords \cup UntokenizedPieces,
                       following \in ConcatsOf(FollowingPieces, MaxUnsupportedPieces - 1)}

\* An afternoon of 2021 and the first instant after the year 9999.
UnsupportedValues ==
    {CivilTime(2021, 7, 4, 13, 5, 9, 0), CivilTime(10000, 1, 1, 0, 0, 0, 0)}

\* A call of CastFormatTimestampToString, or of ValidateFormatStringForFormatting
\* for TIMESTAMP, on one of the format strings.
InitUnsupported ==
    \/ InitCastFormatToString({"CastFormatTimestampToString"}, UnsupportedFormats,
                              UnsupportedValues, {<<"U", "T", "C">>, <<"X">>})
    \/ /\ entry = "ValidateFormatStringForFormatting"
       /\ out_type = "TYPE_TIMESTAMP"
       /\ format_string \in UnsupportedFormats
       /\ pc = "tokenize"
       /\ processed_len = 0
       /\ format_elements = <<>>
       /\ tokenizer_status = NoStatus
       /\ status = NoStatus
       /\ NoCast

NextUnsupported ==
    \/ CastFormatTimestampToStringBegin
    \/ GetDateTimeFormatElementsStep
    \/ GetDateTimeFormatElementsReturn
    \/ ValidateFormatStringForFormatting
    \/ FromCastFormatTimestampToStringInternalBegin
    \/ ResolveFormatStringStep
    \/ FromCastFormatTimestampToStringInternalReturn

SpecUnsupported == InitUnsupported /\ [][NextUnsupported]_vars

-----------------------------------------------------------------------------
(* Calls of every cast entry point and overload, with malformed arguments. *)

\* A year element, an element neither direction implements, a byte that is
\* not UTF-8.
CastFormatPieces == {<<"Y", "Y", "Y", "Y">>, <<"Q">>, <<"0xFF">>}

\* Digits of years inside and outside the valid range, a byte that is not UTF-8.
CastInputPieces == {<<"2">>, <<"0">>, <<"0xFF">>}

MaxCastPieces == 2

\* The zone of the model, a name of no zone, a name that is not UTF-8.
CastZoneNames == {<<"U", "T", "C">>, <<"X">>, <<"0xFF">>}

\* A date, a time of day, an instant past the valid range.
CastValues ==
    {CivilTime(2021, 7, 4, 0, 0, 0, 0), CivilTime(1970, 1, 1, 13, 5, 9, 0),
     CivilTime(10000, 1, 1, 0, 0, 0, 0)}

InitCast ==
    \/ InitCastStringToTimestampOf(TimestampOverloads, CastZoneNames,
                                   ConcatsOf(CastFormatPieces, MaxCastPieces),
                                   ConcatsOf(CastInputPieces, MaxCastPieces), {2000})
    \/ InitCastFormatToString(RenderEntries, ConcatsOf(CastFormatPieces, MaxCastPieces),
                              CastValues, CastZoneNames)

NextCast == NextCastStringToTimestamp \/ NextCastFormatToString

SpecCast == InitCast /\ [][NextCast]_vars

-----------------------------------------------------------------------------
(* A caller that parses what it formatted.                                 *)

\* CastFormatTimestampToString returned OkStatus, and its caller passes the
\* string it got and the same format string to
\* CastStringToTimestamp(format_string, timestamp_string, TimeZone, Time, Time*).
ParseTheFormatted ==
    /\ pc = "done"
    /\ entry = "CastFormatTimestampToString"
    /\ status = OkStatus
    /\ entry' = "CastStringToTimestamp"
    /\ overload' = "TimeZone,Time*"
    /\ timestamp_string' = out
    /\ pc' = "start"
    /\ processed_len' = 0
    /\ format_elements' = <<>>
    /\ tokenizer_status' = NoStatus
    /\ status' = NoStatus
    /\ UNCHANGED <<format_string, out_type, timezone_string, cs_now, base_time,
                   processed_format_element_count, timestamp_str_parsed_length, year,
                   month, mday, error_in_parsing, timestamp, updated_format_string, out>>

\* Whole years, separators, whitespace, a month, a quoted digit, a one-digit
\* year.
RoundTripPieces ==
    {<<"Y", "Y", "Y", "Y">>, <<"R", "R", "R", "R">>, <<"-">>, <<" ">>, <<"M", "M">>,
     <<"\"", "1", "\"">>, <<"Y">>}

MaxRoundTripPieces == 3

\* Instants in years of four and of three digits, with and without a time of
\* day.
RoundTripValues ==
    {CivilTime(2021, 7, 4, 0, 0, 0, 0), CivilTime(999, 1, 1, 0, 0, 0, 0),
     CivilTime(9999, 12, 31, 23, 59, 59, 0)}

InitRoundTrip ==
    /\ InitCastFormatToString({"CastFormatTimestampToString"},
                              ConcatsOf(RoundTripPieces, MaxRoundTripPieces),
                              RoundTripValues, {<<"U", "T", "C">>})
    /\ overload = "Time,TimeZone"

NextRoundTrip ==
    \/ CastFormatTimestampToStringBegin
    \/ GetDateTimeFormatElementsStep
    \/ GetDateTimeFormatElementsReturn
    \/ FromCastFormatTimestampToStringInternalBegin
    \/ ResolveFormatStringStep
    \/ FromCastFormatTimestampToStringInternalReturn
    \/ ParseTheFormatted
    \/ CastStringToTimestampBegin
    \/ CastStringToTimestampValidate
    \/ ParseTimeWithFormatElementsBegin
    \/ ParseTimeWithFormatElementsStep
    \/ ParseTimeWithFormatElementsReturn

SpecRoundTrip == InitRoundTrip /\ [][NextRoundTrip]_vars

-----------------------------------------------------------------------------
(* Properties of the tokenizer.                                            *)

RECURSIVE SumLen(_)
SumLen(elements) ==
    IF elements = <<>> THEN 0
    ELSE Head(elements).len_in_format_str + SumLen(Tail(elements))

\* The offset in format_string at which format_elements[i] starts.
ElementOffset(i) == SumLen(SubSeq(format_elements, 1, i - 1))

\* The bytes of format_string that format_elements[i] was read from.
ElementBytes(i) ==
    SubstrN(format_string, ElementOffset(i), format_elements[i].len_in_format_str)

TypesOf(elements) == [i \in 1..Len(elements) |-> elements[i].type]

LensOf(elements) == [i \in 1..Len(elements) |-> elements[i].len_in_format_str]

\* C1: when GetDateTimeFormatElements succeeds, the len_in_format_str of the
\* returned elements add up to the length of the format string.
C1_LengthsCoverFormat ==
    tokenizer_status = OkStatus => SumLen(format_elements) = Len(format_string)

\* A successful tokenization that holds a quoted literal with an escape: its
\* length counts the two quotes and the backslash.
C1_Witness ==
    /\ tokenizer_status = OkStatus
    /\ \E i \in 1..Len(format_elements) :
          /\ format_elements[i].type = "kDoubleQuotedLiteral"
          /\ format_elements[i].len_in_format_str
                 > Len(format_elements[i].literal_value) + 2

\* The element types a format string made of exactly one vocabulary string
\* must give.
SingleElementFormats ==
    {[format |-> <<"Y","Y","Y","Y">>, type |-> "kYYYY"],
     [format |-> <<"Y","Y","Y">>, type |-> "kYYY"],
     [format |-> <<"Y","Y">>, type |-> "kYY"],
     [format |-> <<"Y">>, type |-> "kY"],
     [format |-> <<"R","R","R","R">>, type |-> "kRRRR"],
     [format |-> <<"R","R">>, type |-> "kRR"],
     [format |-> <<"Y",",","Y","Y","Y">>, type |-> "kYCommaYYY"],
     [format |-> <<"A",".","M",".">>, type |-> "kAMWithDots"]}

\* C2: every emitted element is the one whose vocabulary string is the longest
\* prefix of the upper-cased format string at the element's offset, and YYYY,
\* YYY, YY, Y, RRRR, RR, Y,YYY and A.M. each tokenize to one element of that
\* type.
C2_MaximalMunch ==
    /\ \A i \in 1..Len(format_elements) :
          LET rest == Substr(AsciiStrToUpper(format_string), ElementOffset(i))
              prefixes == {e \in FormatElementTypeTrie : StartsWith(rest, e.key)}
          IN  \E e \in prefixes :
                 /\ \A o \in prefixes : Len(o.key) <= Len(e.key)
                 /\ format_elements[i].type = e.type
                 /\ format_elements[i].type \notin {"kWhitespace", "kDoubleQuotedLiteral"}
                       => format_elements[i].len_in_format_str = Len(e.key)
    /\ \A f \in SingleElementFormats :
          (format_string = f.format /\ tokenizer_status # NoStatus)
              => /\ tokenizer_status = OkStatus
                 /\ TypesOf(format_elements) = <<f.type>>

\* "Y,YYY" was tokenized to a single element.
C2_Witness ==
    /\ format_string = <<"Y",",","Y","Y","Y">>
    /\ tokenizer_status = OkStatus
    /\ Len(format_elements) = 1

\* C3: tokenizing a format string and tokenizing it upper-cased both fail or
\* both succeed with the same element types and lengths.
C3_CaseInsensitive ==
    tokenizer_status # NoStatus =>
        LET upper == GetDateTimeFormatElements(AsciiStrToUpper(format_string))
        IN  /\ upper.ok <=> tokenizer_status = OkStatus
            /\ upper.ok => /\ TypesOf(upper.value) = TypesOf(format_elements)
                           /\ LensOf(upper.value) = LensOf(format_elements)

\* A format string with lowercase letters was tokenized to several elements.
C3_Witness ==
    /\ tokenizer_status = OkStatus
    /\ format_string # AsciiStrToUpper(format_string)
    /\ Len(format_elements) >= 2

\* C4: the casing policy follows from the element's original bytes: literals
\* preserve case; a lowercase first letter gives all lowercase; otherwise a
\* meridian or era indicator, a one-character element and Y,YYY give all
\* uppercase; otherwise the second letter decides.
C4_CasingPolicy ==
    \A i \in 1..Len(format_elements) :
        LET e == format_elements[i]
            bytes == ElementBytes(i)
        IN  IF e.category = "kLiteral"
            THEN e.format_casing_type = "kPreserveCase"
            ELSE IF ascii_islower(bytes[1])
            THEN e.format_casing_type = "kAllLettersLowercase"
            ELSE IF \/ e.category \in {"kMeridianIndicator", "kEraIndicator"}
                    \/ Len(bytes) = 1
                    \/ e.type = "kYCommaYYY"
            THEN e.format_casing_type = "kAllLettersUppercase"
            ELSE /\ ascii_islower(bytes[2])
                       => e.format_casing_type = "kOnlyFirstLetterUppercase"
                 /\ ascii_isupper(bytes[2])
                       => e.format_casing_type = "kAllLettersUppercase"

\* A meridian indicator written with an uppercase first and a lowercase second
\* letter got the all-uppercase policy.
C4_Witness ==
    \E i \in 1..Len(format_elements) :
        /\ format_elements[i].category = "kMeridianIndicator"
        /\ ascii_isupper(ElementBytes(i)[1])
        /\ ascii_islower(ElementBytes(i)[2])
        /\ format_elements[i].format_casing_type = "kAllLettersUppercase"

-----------------------------------------------------------------------------
(* Properties of parse validation.                                         *)

\* The element list is complete and parse validation (target TIMESTAMP) has
\* given its verdict on it.
ParseValidated ==
    /\ entry \in {"ValidateFormatStringForParsing", "CastStringToTimestamp"}
    /\ out_type = "TYPE_TIMESTAMP"
    /\ tokenizer_status = OkStatus
    /\ pc \in {"done", "parse"}

ParseRejected == ParseValidated /\ pc = "done" /\ status.code = "EvalError"

ParseAccepted == ParseValidated /\ (pc = "parse" \/ status = OkStatus)

HasType(type) == \E i \in 1..Len(format_elements) : format_elements[i].type = type

HasCategory(category) ==
    \E i \in 1..Len(format_elements) : format_elements[i].category = category

FirstOfCategory(category) ==
    format_elements[CHOOSE i \in 1..Len(format_elements) :
                        /\ format_elements[i].category = category
                        /\ \A j \in 1..(i - 1) : format_elements[j].category # category]

LastPiece(st) == IF st.msg = <<>> THEN "" ELSE st.msg[Len(st.msg)]

IsNotSupportedError(st) ==
    st.code = "EvalError" /\ LastPiece(st) = " is not supported for parsing"

IsDuplicateTypeError(st) ==
    st.code = "EvalError" /\ LastPiece(st) = " appears more than once in the format string"

IsDuplicateCategoryError(st) ==
    /\ st.code = "EvalError"
    /\ st.msg # <<>>
    /\ st.msg[1] = "More than one format element in category "

IsMutualExclusionError(st) ==
    st.code = "EvalError" /\ LastPiece(st) = " cannot exist simultaneously"

IsCoexistenceError(st) ==
    /\ st.code = "EvalError"
    /\ \E k \in 1..Len(st.msg) :
           st.msg[k] \in {" is required when format element ",
                          " is required when format element in category "}

\* The parseable subset, as the format contract lists it.
ParseableTypes ==
    {"kSimpleLiteral", "kDoubleQuotedLiteral", "kWhitespace", "kY", "kYY", "kYYY",
     "kYYYY", "kRR", "kRRRR", "kYCommaYYY", "kMM", "kMON", "kMONTH", "kDD", "kDDD",
     "kHH", "kHH12", "kHH24", "kMI", "kSS", "kSSSSS", "kFFN", "kAM", "kPM",
     "kAMWithDots", "kPMWithDots", "kTZH", "kTZM"}

UnparseableAt == {i \in 1..Len(format_elements) : format_elements[i].type \notin ParseableTypes}

\* Positions of a non-literal element whose type occurred before.
RepeatedAt ==
    {i \in 1..Len(format_elements) :
        /\ format_elements[i].type \notin LiteralTypes
        /\ \E j \in 1..(i - 1) : format_elements[j].type = format_elements[i].type}

Least(S) == CHOOSE i \in S : \A o \in S : i <= o

NotSupportedErrorFor(format_element) ==
    MakeEvalError(<<"Format element ">> \o ElementToString(format_element)
                  \o <<" is not supported for parsing">>)

DuplicateTypeErrorFor(format_element) ==
    MakeEvalError(<<"Format element ">> \o ElementToString(format_element)
                  \o <<" appears more than once in the format string">>)

\* C5 as stated: every format with an element outside the parseable subset is
\* rejected with the "is not supported for parsing" error, and that error is
\* never raised for an element inside the subset.
C5_Original ==
    ParseValidated =>
        /\ UnparseableAt # {} => IsNotSupportedError(status)
        /\ IsNotSupportedError(status) =>
               \E i \in UnparseableAt : status = NotSupportedErrorFor(format_elements[i])

\* C5: for target TIMESTAMP, parse validation rejects every format with an
\* element outside the parseable subset; the error is "is not supported for
\* parsing" for the first such element unless a non-literal type is repeated
\* before that element, and then it is the duplicate-type error of the first
\* repetition; the not-supported error is never raised for an element inside
\* the subset.
C5_UnsupportedRejected ==
    ParseValidated =>
        /\ UnparseableAt # {} =>
               /\ ParseRejected
               /\ LET first == Least(UnparseableAt)
                      before == {i \in RepeatedAt : i < first}
                  IN  IF before # {}
                      THEN status = DuplicateTypeErrorFor(format_elements[Least(before)])
                      ELSE status = NotSupportedErrorFor(format_elements[first])
        /\ IsNotSupportedError(status) =>
               /\ UnparseableAt # {}
               /\ status = NotSupportedErrorFor(format_elements[Least(UnparseableAt)])

\* "HH12AMQ": a valid format followed by the unsupported Q.
C5_Witness ==
    /\ ParseRejected
    /\ TypesOf(format_elements) = <<"kHH12", "kAM", "kQ">>
    /\ status = MakeEvalError(<<"Format element ", "'", "Q", "'",
                                " is not supported for parsing">>)

\* C6: parse validation rejects every format in which a non-literal type occurs
\* more than once, whatever the casing of the occurrences; the duplicate-type
\* error is raised only for such a repetition, never for repeated literals.
C6_DuplicateTypeRejected ==
    ParseValidated =>
        /\ RepeatedAt # {} => ParseRejected
        /\ IsDuplicateTypeError(status) =>
               \E i \in RepeatedAt : status = DuplicateTypeErrorFor(format_elements[i])
        /\ (/\ \A i \in 1..Len(format_elements) : format_elements[i].type \in LiteralTypes)
               => ParseAccepted

\* "MiYYmI" is rejected for the repeated MI.
C6_Witness ==
    /\ ParseRejected
    /\ format_string = <<"M", "i", "Y", "Y", "m", "I">>
    /\ TypesOf(format_elements) = <<"kMI", "kYY", "kMI">>
    /\ IsDuplicateTypeError(status)

\* Whitespace repeated around an element: accepted.
C6_WitnessLiterals ==
    /\ ParseAccepted
    /\ TypesOf(format_elements) = <<"kWhitespace", "kYY", "kWhitespace">>

NoDuplicateCategories ==
    {"kMeridianIndicator", "kYear", "kMonth", "kDay", "kHour", "kMinute"}

DuplicatedCategories ==
    {c \in NoDuplicateCategories :
        \E i, j \in 1..Len(format_elements) :
            /\ i < j
            /\ format_elements[i].category = c
            /\ format_elements[j].category = c}

\* C7: parse validation rejects every format with two or more elements of one
\* of the categories Meridian, Year, Month, Day, Hour, Minute; the
\* duplicate-category error is raised only for these categories, and SS with
\* FFn and TZH with TZM are accepted.
C7_DuplicateCategoryRejected ==
    ParseValidated =>
        /\ DuplicatedCategories # {} => ParseRejected
        /\ IsDuplicateCategoryError(status) =>
               \E c \in DuplicatedCategories : status.msg[2] = FormatElementCategoryString(c)
        /\ TypesOf(format_elements) \in
               {<<"kSS", "kFFN">>, <<"kFFN", "kSS">>, <<"kTZH", "kTZM">>, <<"kTZM", "kTZH">>}
               => ParseAccepted

\* "YYRRRR": two elements of category Year.
C7_Witness ==
    /\ ParseRejected
    /\ TypesOf(format_elements) = <<"kYY", "kRRRR">>
    /\ status = MakeEvalError(<<"More than one format element in category ", "YEAR",
                                " exist: ", "'", "YY", "'", " and ", "'", "RRRR", "'">>)

\* "SSFF3": two elements of category Second, accepted.
C7_WitnessSecond ==
    /\ ParseAccepted
    /\ TypesOf(format_elements) = <<"kSS", "kFFN">>

\* The format holds one of the excluded combinations.
HasExcludedCombination ==
    \/ HasType("kDDD") /\ HasCategory("kMonth")
    \/ HasType("kHH24") /\ HasCategory("kMeridianIndicator")
    \/ HasType("kSSSSS") /\ HasCategory("kHour")
    \/ HasType("kSSSSS") /\ HasCategory("kMinute")
    \/ HasType("kSSSSS") /\ HasType("kSS")

\* The mutual-exclusion diagnostic for HH24 and the first meridian element.
HH24MeridianError ==
    MakeEvalError(<<"Format element in category ", "MERIDIAN_INDICATOR", " (">>
                  \o ElementToString(FirstOfCategory("kMeridianIndicator"))
                  \o <<") and format element ", "'", "HH24", "'",
                       " cannot exist simultaneously">>)

\* None of the checks the validator makes before the HH24/meridian exclusion
\* fails: parseability, repeated type, duplicate category, DDD with a month.
PassesEarlierChecks ==
    /\ UnparseableAt = {}
    /\ RepeatedAt = {}
    /\ DuplicatedCategories = {}
    /\ ~(HasType("kDDD") /\ HasCategory("kMonth"))

\* C8 as stated: every excluded combination is rejected, and HH24 with a
\* meridian element is reported by the mutual-exclusion diagnostic.
C8_Original ==
    ParseValidated =>
        /\ HasExcludedCombination => ParseRejected
        /\ HasType("kHH24") /\ HasCategory("kMeridianIndicator")
               => status = HH24MeridianError

\* C8: parse validation rejects every format with DDD and a month element,
\* HH24 and a meridian element, or SSSSS and an hour element, a minute element
\* or SS; for HH24 with a meridian element the error is never the coexistence
\* diagnostic, and it is the mutual-exclusion diagnostic naming 'HH24' and
\* MERIDIAN_INDICATOR whenever no earlier check of the validator fails.
C8_MutualExclusion ==
    ParseValidated =>
        /\ HasExcludedCombination => ParseRejected
        /\ HasType("kHH24") /\ HasCategory("kMeridianIndicator") =>
               /\ ~IsCoexistenceError(status)
               /\ PassesEarlierChecks => status = HH24MeridianError

\* "HH24 AM".
C8_Witness ==
    /\ ParseRejected
    /\ format_string = <<"H", "H", "2", "4", " ", "A", "M">>
    /\ status = MakeEvalError(<<"Format element in category ", "MERIDIAN_INDICATOR", " (",
                                "'", "AM", "'", ") and format element ", "'", "HH24", "'",
                                " cannot exist simultaneously">>)

HasHHOrHH12 == HasType("kHH") \/ HasType("kHH12")

\* The coexistence diagnostic for a format with HH or HH12 and no meridian
\* element; HH is looked for first.
MeridianRequiredError ==
    MakeEvalError(<<"Format element in category ", "MERIDIAN_INDICATOR",
                    " is required when format element ", "'",
                    IF HasType("kHH") THEN "HH" ELSE "HH12", "'", " exists">>)

\* C9 as stated: acceptance implies the equivalence, HH or HH12 without a
\* meridian element is rejected with the coexistence message, a meridian
\* element without HH or HH12 is rejected.
C9_Original ==
    ParseValidated =>
        /\ ParseAccepted => (HasHHOrHH12 <=> HasCategory("kMeridianIndicator"))
        /\ HasHHOrHH12 /\ ~HasCategory("kMeridianIndicator")
               => status = MeridianRequiredError
        /\ HasCategory("kMeridianIndicator") /\ ~HasHHOrHH12 => ParseRejected

\* C9: parse validation accepts a format only if it contains HH or HH12
\* exactly when it contains a meridian element; HH or HH12 without a meridian
\* element is rejected, with "Format element in category MERIDIAN_INDICATOR is
\* required when format element 'HH12' exists" (resp. 'HH') whenever no earlier
\* check of the validator fails; a meridian element without HH or HH12 is
\* rejected.
C9_Coexistence ==
    ParseValidated =>
        /\ ParseAccepted => (HasHHOrHH12 <=> HasCategory("kMeridianIndicator"))
        /\ HasHHOrHH12 /\ ~HasCategory("kMeridianIndicator") =>
               /\ ParseRejected
               /\ PassesEarlierChecks => status = MeridianRequiredError
        /\ HasCategory("kMeridianIndicator") /\ ~HasHHOrHH12 => ParseRejected

\* "HH12Mi": HH12 and a minute, no meridian element.
C9_Witness ==
    /\ ParseRejected
    /\ TypesOf(format_elements) = <<"kHH12", "kMI">>
    /\ status = MakeEvalError(<<"Format element in category ", "MERIDIAN_INDICATOR",
                                " is required when format element ", "'", "HH12", "'",
                                " exists">>)

-----------------------------------------------------------------------------
(* Properties of validation, all entry points.                             *)

\* Rules 2-5 of the validator on the element list.
StructuralRules ==
    /\ RepeatedAt = {}
    /\ DuplicatedCategories = {}
    /\ ~HasExcludedCombination
    /\ HasHHOrHH12 <=> HasCategory("kMeridianIndicator")

ParseValidationSucceeded ==
    /\ tokenizer_status = OkStatus
    /\ \/ entry = "ValidateFormatStringForParsing" /\ pc = "done" /\ status = OkStatus
       \/ entry = "CastStringToTimestamp" /\ pc = "parse"

FormatValidationSucceeded ==
    /\ tokenizer_status = OkStatus
    /\ \/ entry = "ValidateFormatStringForFormatting" /\ pc = "done" /\ status = OkStatus
       \/ /\ entry \in {"CastFormatDateToString", "CastFormatDatetimeToString",
                        "CastFormatTimeToString", "CastFormatTimestampToString"}
          /\ pc = "format"

\* The categories the formatting validators let through, per target type.
AllowedCategoriesForFormatting ==
    CASE out_type = "TYPE_DATE" -> {"kLiteral", "kYear", "kMonth", "kDay"}
      [] out_type = "TYPE_TIME" ->
             {"kLiteral", "kHour", "kMinute", "kSecond", "kMeridianIndicator"}
      [] out_type = "TYPE_DATETIME" ->
             {"kLiteral", "kYear", "kMonth", "kDay", "kHour", "kMinute", "kSecond",
              "kMeridianIndicator"}
      [] OTHER -> {format_elements[i].category : i \in 1..Len(format_elements)}

FormatValidated ==
    /\ tokenizer_status = OkStatus
    /\ \/ entry = "ValidateFormatStringForFormatting" /\ pc = "done"
       \/ /\ entry \in {"CastFormatDateToString", "CastFormatDatetimeToString",
                        "CastFormatTimeToString"}
          /\ pc \in {"format", "done"}

AllCategoriesAllowed ==
    \A i \in 1..Len(format_elements) :
        format_elements[i].category \in AllowedCategoriesForFormatting

\* C11: on a tokenized format, ValidateFormatStringForFormatting returns ok for
\* DATE, TIME and DATETIME exactly when every element's category is allowed
\* for that type, and always for TIMESTAMP; CastFormatDateToString,
\* CastFormatTimeToString and CastFormatDatetimeToString go on to render
\* exactly under the same condition.
C11_FormattingCategories ==
    FormatValidated /\ out_type \in {"TYPE_DATE", "TYPE_TIME", "TYPE_DATETIME", "TYPE_TIMESTAMP"}
        => /\ FormatValidationSucceeded <=> AllCategoriesAllowed
           /\ out_type = "TYPE_TIMESTAMP" => status = OkStatus
           /\ ~FormatValidationSucceeded => status.code = "EvalError"

\* "SSFF3" for TIME: two elements of category Second, accepted.
C11_Witness ==
    /\ FormatValidated
    /\ entry = "ValidateFormatStringForFormatting"
    /\ out_type = "TYPE_TIME"
    /\ TypesOf(format_elements) = <<"kSS", "kFFN">>
    /\ status = OkStatus

\* "YYHH" for DATE is refused by CastFormatDateToString before rendering.
C11_WitnessRejected ==
    /\ FormatValidated
    /\ entry = "CastFormatDateToString"
    /\ TypesOf(format_elements) = <<"kYY", "kHH">>
    /\ pc = "done"
    /\ status = MakeEvalError(<<"DATE", " does not support ", "'", "HH", "'">>)

-----------------------------------------------------------------------------
(* Properties of the quoted-literal scanner.                               *)

\* What a quoted literal's bytes after the opening quote say, read as the
\* format contract describes them: closed by an unescaped quote (with the
\* unescaped value and the number of bytes up to and with that quote), stopped
\* by an escape other than \\ and \", or never closed.
RECURSIVE QuotedBody(_)
QuotedBody(bytes) ==
    IF bytes = <<>> \/ bytes = <<"\\">>
    THEN [kind |-> "unterminated", value |-> <<>>, len |-> 0, char |-> ""]
    ELSE IF bytes[1] = "\""
    THEN [kind |-> "closed", value |-> <<>>, len |-> 1, char |-> ""]
    ELSE IF bytes[1] = "\\" /\ bytes[2] \notin {"\\", "\""}
    THEN [kind |-> "bad_escape", value |-> <<>>, len |-> 0, char |-> bytes[2]]
    ELSE LET n == IF bytes[1] = "\\" THEN 2 ELSE 1
             rest == QuotedBody(SubSeq(bytes, n + 1, Len(bytes)))
         IN  IF rest.kind = "closed"
             THEN [rest EXCEPT !.value = <<bytes[n]>> \o @, !.len = @ + n]
             ELSE rest

\* C19: every double-quoted literal element spans the opening quote up to the
\* first unescaped quote, and its literal_value is the bytes between with \\
\* and \" unescaped and every other byte unchanged; when the tokenizer stops at
\* a quote, it is with "Unsupported escape sequence" for an escape other than
\* \\ and \", and with "Cannot find matching \" for quoted literal" when the
\* format string ends before an unescaped closing quote.
C19_QuotedLiteral ==
    /\ \A i \in 1..Len(format_elements) :
           format_elements[i].type = "kDoubleQuotedLiteral" =>
               LET body == QuotedBody(Tail(Substr(format_string, ElementOffset(i))))
               IN  /\ body.kind = "closed"
                   /\ format_elements[i].literal_value = body.value
                   /\ format_elements[i].len_in_format_str = body.len + 1
    /\ pc = "done" /\ tokenizer_status.code = "EvalError" =>
           LET rest == Substr(format_string, processed_len)
               body == QuotedBody(Tail(rest))
           IN  IF rest[1] = "\""
               THEN CASE body.kind = "bad_escape" ->
                             tokenizer_status.msg =
                                 <<"Unsupported escape sequence \\", body.char, " in text",
                                   " at ", ToString(processed_len)>>
                      [] body.kind = "unterminated" ->
                             tokenizer_status.msg =
                                 <<"Cannot find matching \" for quoted literal",
                                   " at ", ToString(processed_len)>>
                      [] OTHER -> FALSE
               ELSE tokenizer_status.msg[1] \notin
                        {"Unsupported escape sequence \\",
                         "Cannot find matching \" for quoted literal"}

\* "\"\\\"\"": a quoted literal holding one escaped quote.
C19_Witness ==
    /\ pc = "done"
    /\ tokenizer_status = OkStatus
    /\ format_string = <<"\"", "\\", "\"", "\"">>
    /\ Len(format_elements) = 1
    /\ format_elements[1].type = "kDoubleQuotedLiteral"
    /\ format_elements[1].literal_value = <<"\"">>
    /\ format_elements[1].len_in_format_str = 4

\* A backslash before Y inside a quoted literal.
C19_WitnessBadEscape ==
    /\ pc = "done"
    /\ format_string = <<"\"", "\\", "Y">>
    /\ tokenizer_status = MakeEvalError(<<"Unsupported escape sequence \\", "Y", " in text",
                                          " at ", "0">>)

\* The format string ends right after a backslash.
C19_WitnessUnterminated ==
    /\ pc = "done"
    /\ format_string = <<"Y", "\"", "\\">>
    /\ tokenizer_status = MakeEvalError(<<"Cannot find matching \" for quoted literal",
                                          " at ", "1">>)

-----------------------------------------------------------------------------
(* Properties of the parser's elements.                                    *)

\* The element the loop of ParseTimeWithFormatElements is at.
ElementAtCursor == format_elements[processed_format_element_count + 1]

\* An iteration of the loop is taken on an element of the type.
StepOn(type) ==
    /\ pc = "parse_loop"
    /\ pc' = "parse_loop"
    /\ ElementAtCursor.type = type

\* The iteration consumed the element.
Consumed == processed_format_element_count' = processed_format_element_count + 1

\* The input from the cursor on, and the bytes the iteration consumed.
InputAtCursor == Substr(timestamp_string, timestamp_str_parsed_length)

BytesRead ==
    SubSeq(timestamp_string, timestamp_str_parsed_length + 1, timestamp_str_parsed_length')

AllDigits(str) == \A i \in 1..Len(str) : InSeq(str[i], Digits)

\* The number of digits the input has at 0-based offset from, counted to at most.
DigitsAt(str, from, most) ==
    Cardinality({n \in 1..most : from + n <= Len(str)
                                 /\ AllDigits(SubSeq(str, from + 1, from + n))})

\* The year the pivot rule gives for the two-digit year yy in current_year.
PivotYear(current_year, yy) ==
    LET cc == current_year \div 100
        ccy == current_year % 100
    IN  IF yy < 50 /\ ccy >= 50 THEN (cc + 1) * 100 + yy
        ELSE IF yy >= 50 /\ ccy < 50 THEN (cc - 1) * 100 + yy
        ELSE cc * 100 + yy

\* C14: parsing RR reads the one or two digits yy at the cursor and sets year to
\* cc'*100 + yy, where cc and ccy are current_year / 100 and current_year % 100
\* and cc' is cc+1 if yy < 50 and ccy >= 50, cc-1 if yy >= 50 and ccy < 50, and
\* cc otherwise; 2002 gives 2012 for "12" and 1951 for "51", 2299 gives 2312 and
\* 2251.  Without a digit at the cursor the element fails.
C14_RRPivot ==
    [][StepOn("kRR") =>
          LET digits == DigitsAt(timestamp_string, timestamp_str_parsed_length, 2)
              yy == DigitsValue(BytesRead)
          IN  IF digits = 0
              THEN error_in_parsing' /\ ~Consumed /\ year' = year
              ELSE /\ Consumed
                   /\ Len(BytesRead) = digits
                   /\ year' = PivotYear(cs_now.year, yy)
                   /\ (cs_now.year = 2002 /\ BytesRead = <<"1", "2">> => year' = 2012)
                   /\ (cs_now.year = 2002 /\ BytesRead = <<"5", "1">> => year' = 1951)
                   /\ (cs_now.year = 2299 /\ BytesRead = <<"1", "2">> => year' = 2312)
                   /\ (cs_now.year = 2299 /\ BytesRead = <<"5", "1">> => year' = 2251)]_vars

\* "51" was parsed with RR in 2002: the century went down.
C14_Witness ==
    /\ format_string = <<"R", "R">>
    /\ timestamp_string = <<"5", "1">>
    /\ cs_now.year = 2002
    /\ processed_format_element_count = 1
    /\ year = 1951
    /\ status = OkStatus

\* "12" was parsed with RR in 2299: the century went up.
C14_WitnessUp ==
    /\ format_string = <<"R", "R">>
    /\ timestamp_string = <<"1", "2">>
    /\ cs_now.year = 2299
    /\ year = 2312
    /\ status = OkStatus

\* The input at the cursor starts with h digits of value at most 10, a comma
\* and three digits.
HasYCommaYYYAt(str, h) ==
    /\ Len(str) >= h + 4
    /\ AllDigits(SubSeq(str, 1, h))
    /\ DigitsValue(SubSeq(str, 1, h)) <= 10
    /\ str[h + 1] = ","
    /\ AllDigits(SubSeq(str, h + 2, h + 4))

\* C15: "Y,YYY" tokenizes to one Y,YYY element of length 5; parsing it reads one
\* or two digits of value 0..10, one ',' and exactly three digits, and sets
\* year = high*1000 + low, so "10,000" gives year 10000; on any other input the
\* element fails.
C15_YCommaYYY ==
    /\ [](format_string = <<"Y", ",", "Y", "Y", "Y">> /\ tokenizer_status = OkStatus
          => /\ TypesOf(format_elements) = <<"kYCommaYYY">>
             /\ LensOf(format_elements) = <<5>>)
    /\ [][StepOn("kYCommaYYY") =>
             IF \E h \in 1..2 : HasYCommaYYYAt(InputAtCursor, h)
             THEN LET h == CHOOSE n \in 1..2 : HasYCommaYYYAt(InputAtCursor, n)
                      high == DigitsValue(SubSeq(InputAtCursor, 1, h))
                      low == DigitsValue(SubSeq(InputAtCursor, h + 2, h + 4))
                  IN  /\ Consumed
                      /\ Len(BytesRead) = h + 4
                      /\ year' = high * 1000 + low
                      /\ (InputAtCursor = <<"1", "0", ",", "0", "0", "0">> => year' = 10000)
             ELSE error_in_parsing' /\ ~Consumed /\ year' = year]_vars

\* "10,000" was parsed with Y,YYY in the year 2000.
C15_Witness ==
    /\ format_string = <<"Y", ",", "Y", "Y", "Y">>
    /\ timestamp_string = <<"1", "0", ",", "0", "0", "0">>
    /\ cs_now.year = 2000
    /\ processed_format_element_count = 1
    /\ year = 10000

\* The number of bytes of the whitespace code points str starts with.
RECURSIVE WhitespacePrefix(_)
WhitespacePrefix(str) ==
    IF str # <<>> /\ str[1] \in {" ", "\t", "\n"}
    THEN 1 + WhitespacePrefix(Substr(str, 1))
    ELSE IF Len(str) >= 2 /\ str[1] = "0xC2" /\ str[2] = "0xA0"
    THEN 2 + WhitespacePrefix(Substr(str, 2))
    ELSE 0

\* ParseTimeWithFormatElements was entered.
ParseEntered == pc = "parse_loop" \/ (pc = "done" /\ mday = 1)

\* The call has returned and the parser had stopped at a Whitespace element.
StoppedAtWhitespace ==
    /\ pc = "done"
    /\ ParseEntered
    /\ processed_format_element_count < Len(format_elements)
    /\ ElementAtCursor.type = "kWhitespace"

FailedToParseAt(offset, format_element) ==
    MakeEvalError(<<"Failed to parse input timestamp string at ", ToString(offset),
                    " with format element ">> \o ElementToString(format_element))

EntireStringParsedBefore(format_element) ==
    MakeEvalError(<<"Entire timestamp string has been parsed before dealing with",
                    " format element ">> \o ElementToString(format_element))

\* C20 as stated: a parse that stops at a Whitespace element, the input at the
\* cursor not starting with whitespace, returns the "Failed to parse input
\* timestamp string at K with format element" diagnostic.
C20_Original ==
    StoppedAtWhitespace /\ WhitespacePrefix(InputAtCursor) = 0
        => status = FailedToParseAt(timestamp_str_parsed_length, ElementAtCursor)

\* C20: a Whitespace element consumes all the consecutive Unicode whitespace
\* code points at the cursor, at least one, whatever its number of spaces in
\* the format string; where input remains at the cursor that does not start
\* with whitespace the parse fails with "Failed to parse input timestamp string
\* at K with format element"; where the input ends at the cursor it fails with
\* "Entire timestamp string has been parsed before dealing with format element".
C20_Whitespace ==
    /\ [][StepOn("kWhitespace") =>
             IF WhitespacePrefix(InputAtCursor) > 0
             THEN Consumed /\ Len(BytesRead) = WhitespacePrefix(InputAtCursor)
             ELSE error_in_parsing' /\ ~Consumed
                  /\ timestamp_str_parsed_length' = timestamp_str_parsed_length]_vars
    /\ [](StoppedAtWhitespace =>
             /\ WhitespacePrefix(InputAtCursor) = 0
             /\ status = IF InputAtCursor # <<>>
                         THEN FailedToParseAt(timestamp_str_parsed_length, ElementAtCursor)
                         ELSE EntireStringParsedBefore(ElementAtCursor))

\* A Whitespace element of one space consumed a space and a tab.
C20_Witness ==
    /\ format_string = <<"-", " ", "-">>
    /\ timestamp_string = <<"-", " ", "\t", "-">>
    /\ processed_format_element_count = 3
    /\ status = OkStatus

\* A Whitespace element met a byte that is no whitespace.
C20_WitnessFailed ==
    /\ format_string = <<"-", " ", "-">>
    /\ timestamp_string = <<"-", "-">>
    /\ status = FailedToParseAt(1, [DateTimeFormatElement EXCEPT
                                       !.type = "kWhitespace", !.len_in_format_str = 1])

\* A Whitespace element of two spaces consumed one no-break space.
C20_WitnessNoBreakSpace ==
    /\ format_string = <<"-", " ", " ", "-">>
    /\ timestamp_string = <<"-", "0xC2", "0xA0", "-">>
    /\ processed_format_element_count = 3
    /\ status = OkStatus

\* A call with format "YYYYMMDD" has returned.
ReturnedForYYYYMMDD ==
    /\ pc = "done"
    /\ format_string = <<"Y", "Y", "Y", "Y", "M", "M", "D", "D">>

InvalidYearMonthDay ==
    MakeEvalError(<<"Invalid result from year, month, day values after parsing">>)

\* C16 as stated: with format "YYYYMMDD", input "20200229" gives the instant
\* 2020-02-29 00:00:00 UTC and input "20210229" gives the error "Invalid result
\* from year, month, day values after parsing".
C16_Original ==
    ReturnedForYYYYMMDD =>
        /\ timestamp_string = <<"2", "0", "2", "0", "0", "2", "2", "9">>
               => status = OkStatus /\ timestamp = CivilTime(2020, 2, 29, 0, 0, 0, 0)
        /\ timestamp_string = <<"2", "0", "2", "1", "0", "2", "2", "9">>
               => status = InvalidYearMonthDay

\* C16: with format "YYYYMMDD", zone UTC and any current instant, the inputs
\* "20200229" and "20210229" both give the error "Failed to parse input
\* timestamp string at 0 with format element 'YYYY'"; no input gives an instant
\* or the error "Invalid result from year, month, day values after parsing".
C16_YYYYMMDD ==
    ReturnedForYYYYMMDD =>
        /\ status.code = "EvalError"
        /\ status # InvalidYearMonthDay
        /\ timestamp = Unwritten
        /\ timestamp_string \in {<<"2", "0", "2", "0", "0", "2", "2", "9">>,
                                 <<"2", "0", "2", "1", "0", "2", "2", "9">>}
               => status = FailedToParseAt(0, format_elements[1])

\* "20200229" was rejected at its first byte.
C16_Witness ==
    /\ ReturnedForYYYYMMDD
    /\ timestamp_string = <<"2", "0", "2", "0", "0", "2", "2", "9">>
    /\ TypesOf(format_elements) = <<"kYYYY", "kMM", "kDD">>
    /\ status = MakeEvalError(<<"Failed to parse input timestamp string at ", "0",
                                " with format element ", "'", "YYYY", "'">>)

\* "2020-02" was rejected at MM, which the parser does not implement.
C16_WitnessMonth ==
    /\ pc = "done"
    /\ format_string = <<"Y", "Y", "Y", "Y", "-", "M", "M", "-", "D", "D">>
    /\ timestamp_string = <<"2", "0", "2", "0", "-", "0", "2">>
    /\ status = FailedToParseAt(5, format_elements[3])

\* The value of the digits the input has at the cursor, counted to at most.
ValueAtCursor(most) ==
    DigitsValue(SubSeq(InputAtCursor, 1,
                       DigitsAt(timestamp_string, timestamp_str_parsed_length, most)))

\* C21: parsing YYYY or RRRR reads the 1 to 5 leading decimal digits at the
\* cursor, as many as there are up to 5, requires their value to lie in
\* 0..10000 and sets year to that value in place of the current year; without
\* a digit at the cursor, or with a value read above 10000, the element fails.
C21_YYYY ==
    [][StepOn("kYYYY") \/ StepOn("kRRRR") =>
          LET digits == DigitsAt(timestamp_string, timestamp_str_parsed_length, 5)
          IN  IF digits = 0 \/ ValueAtCursor(5) > 10000
              THEN error_in_parsing' /\ ~Consumed
              ELSE /\ Consumed
                   /\ digits \in 1..5
                   /\ Len(BytesRead) = digits
                   /\ DigitsValue(BytesRead) \in 0..10000
                   /\ year = cs_now.year
                   /\ year' = DigitsValue(BytesRead)]_vars

\* "10000" was read with YYYY in 1970: five digits, the largest value.
C21_Witness ==
    /\ pc = "parse_loop"
    /\ format_string = <<"Y", "Y", "Y", "Y">>
    /\ timestamp_string = <<"1", "0", "0", "0", "0">>
    /\ cs_now.year = 1970
    /\ processed_format_element_count = 1
    /\ timestamp_str_parsed_length = 5
    /\ year = 10000

\* "12000" met RRRR: five digits above 10000.
C21_WitnessAbove ==
    /\ pc = "parse_loop"
    /\ TypesOf(format_elements) = <<"kRRRR">>
    /\ timestamp_string = <<"1", "2", "0", "0", "0">>
    /\ error_in_parsing
    /\ year = cs_now.year

\* "001212": the five digits "00121" were read and the sixth was left.
C21_WitnessSixDigits ==
    /\ pc = "parse_loop"
    /\ timestamp_string = <<"0", "0", "1", "2", "1", "2">>
    /\ processed_format_element_count = 1
    /\ timestamp_str_parsed_length = 5
    /\ year = 121

\* The number of Y of the element: its canonical length.
CanonicalLength(type) ==
    CASE type = "kY" -> 1 [] type = "kYY" -> 2 [] type = "kYYY" -> 3 [] OTHER -> 0

\* 10 to the power n.
RECURSIVE Pow10(_)
Pow10(n) == IF n = 0 THEN 1 ELSE 10 * Pow10(n - 1)

\* C22: parsing Y, YY or YYY, L being 1, 2 or 3, reads the 1 to L digits at
\* the cursor, of value parsed in 0..10^L-1, and sets year = current_year -
\* (current_year mod 10^L) + parsed: the digits of the current year above the L
\* lowest, then parsed as the L lowest digits.  In 1970 "12" with YY gives
\* 1912, "123" with YYY gives 1123 and "1" with Y gives 1971.
C22_YYY ==
    [][StepOn("kY") \/ StepOn("kYY") \/ StepOn("kYYY") =>
          LET L == CanonicalLength(ElementAtCursor.type)
              digits == DigitsAt(timestamp_string, timestamp_str_parsed_length, L)
              parsed == DigitsValue(BytesRead)
          IN  /\ L \in 1..3
              /\ IF digits = 0
                 THEN error_in_parsing' /\ ~Consumed /\ year' = year
                 ELSE /\ Consumed
                      /\ Len(BytesRead) = digits
                      /\ parsed \in 0..(Pow10(L) - 1)
                      /\ year' = cs_now.year - (cs_now.year % Pow10(L)) + parsed
                      /\ year' \div Pow10(L) = cs_now.year \div Pow10(L)
                      /\ year' % Pow10(L) = parsed
                      /\ (cs_now.year = 1970 /\ L = 2 /\ BytesRead = <<"1", "2">>
                              => year' = 1912)
                      /\ (cs_now.year = 1970 /\ L = 3 /\ BytesRead = <<"1", "2", "3">>
                              => year' = 1123)
                      /\ (cs_now.year = 1970 /\ L = 1 /\ BytesRead = <<"1">>
                              => year' = 1971)]_vars

\* "12" was parsed with YY in 1970.
C22_Witness ==
    /\ format_string = <<"Y", "Y">>
    /\ timestamp_string = <<"1", "2">>
    /\ cs_now.year = 1970
    /\ processed_format_element_count = 1
    /\ year = 1912
    /\ status = OkStatus

\* "123" was parsed with YYY in 1970.
C22_WitnessYYY ==
    /\ format_string = <<"Y", "Y", "Y">>
    /\ timestamp_string = <<"1", "2", "3">>
    /\ cs_now.year = 1970
    /\ year = 1123
    /\ status = OkStatus

\* "1" was parsed with Y in 1970.
C22_WitnessY ==
    /\ format_string = <<"Y">>
    /\ timestamp_string = <<"1">>
    /\ cs_now.year = 1970
    /\ year = 1971
    /\ status = OkStatus

\* The format element is an empty double-quoted literal.
IsEmptyQuoted(format_element) ==
    format_element.type = "kDoubleQuotedLiteral" /\ format_element.literal_value = <<>>

\* ParseTimeWithFormatElements leaves its loop and the call returns.
ParseReturns == pc = "parse_loop" /\ pc' = "done"

\* The input left at the cursor once the whitespace it starts with is skipped.
LeftoverInput == Substr(InputAtCursor, WhitespacePrefix(InputAtCursor))

\* The elements not processed by the loop that are no empty quoted literal.
LeftoverElements ==
    {i \in (processed_format_element_count + 1)..Len(format_elements) :
        ~IsEmptyQuoted(format_elements[i])}

\* The first element the loop has not processed that is not one of the empty
\* quoted literals right after the last processed element.
FirstUnskipped ==
    CHOOSE i \in (processed_format_element_count + 1)..Len(format_elements) :
        /\ ~IsEmptyQuoted(format_elements[i])
        /\ \A j \in (processed_format_element_count + 1)..(i - 1) :
               IsEmptyQuoted(format_elements[j])

IllegalTrailingData(data) ==
    MakeEvalError(<<"Illegal non-space trailing data '">> \o data
                  \o <<"' in timestamp string">>)

\* C23: a parse succeeds only if, leading and trailing Unicode whitespace of
\* the input skipped, every byte of the input was consumed by an element and
\* every element was processed, where only empty double-quoted literals at the
\* end may be skipped without input.  When the loop ended without a failed
\* element, input left that is no whitespace gives "Illegal non-space trailing
\* data", and otherwise elements left that are not empty give "Entire timestamp
\* string has been parsed before dealing with format element E" for the first
\* element not processed.
C23_Termination ==
    [][ParseReturns =>
          /\ status' = OkStatus =>
                 /\ ~error_in_parsing
                 /\ LeftoverInput = <<>>
                 /\ LeftoverElements = {}
                 /\ timestamp_str_parsed_length' = Len(timestamp_string)
                 /\ processed_format_element_count' = Len(format_elements)
          /\ ~error_in_parsing /\ LeftoverInput # <<>> =>
                 status' = IllegalTrailingData(LeftoverInput)
          /\ ~error_in_parsing /\ LeftoverInput = <<>> /\ LeftoverElements # {} =>
                 status' = EntireStringParsedBefore(format_elements[FirstUnskipped])]_vars

\* "-" was parsed with "-" and two empty quoted literals, followed by a
\* no-break space.
C23_Witness ==
    /\ pc = "done"
    /\ format_string = <<"-", "\"", "\"", "\"", "\"">>
    /\ timestamp_string = <<" ", "-", "0xC2", "0xA0">>
    /\ processed_format_element_count = 3
    /\ timestamp_str_parsed_length = 4
    /\ status = OkStatus

\* Input was left after the last element.
C23_WitnessTrailing ==
    /\ pc = "done"
    /\ format_string = <<"-", "\"", "\"", "-">>
    /\ timestamp_string = <<"-", "-", "2">>
    /\ status = IllegalTrailingData(<<"2">>)

\* An empty quoted literal was skipped and the element after it was left.
C23_WitnessElementLeft ==
    /\ pc = "done"
    /\ format_string = <<"Y", "Y", "Y", "Y", "\"", "\"", "-">>
    /\ timestamp_string = <<"2", "2">>
    /\ processed_format_element_count = 2
    /\ status = EntireStringParsedBefore(format_elements[3])

\* The element types IsSupportedForParsing admits that the switch of the
\* parser's loop has no case for.
UnimplementedTypes ==
    {"kMM", "kMON", "kMONTH", "kDD", "kDDD", "kHH", "kHH12", "kHH24", "kMI", "kSS",
     "kSSSSS", "kFFN", "kAM", "kPM", "kAMWithDots", "kPMWithDots", "kTZH", "kTZM"}

\* The format has an element of one of these types.
HasUnimplementedElement ==
    \E i \in 1..Len(format_elements) : format_elements[i].type \in UnimplementedTypes

\* The call got through validation into ParseTimeWithFormatElements.
PassedValidation == pc \in {"parse", "parse_loop"} \/ (pc = "done" /\ ParseEntered)

\* C25: a format with an element of type MM, MON, MONTH, DD, DDD, HH, HH12,
\* HH24, MI, SS, SSSSS, FFn, AM, PM, A.M., P.M., TZH or TZM can pass
\* ValidateFormatStringForParsing (each of the keyword formats does, and they
\* cover the eighteen types), yet CastStringToTimestamp with such a format
\* succeeds on no input: when the parser reaches the element with input
\* remaining it fails with "Failed to parse input timestamp string at K with
\* format element E", K the byte offset of the cursor and E the element.
C25_Unimplemented ==
    /\ [](pc \notin {"start", "tokenize", "validate"} /\ format_string \in UnimplementedKeywords
             => PassedValidation /\ HasUnimplementedElement)
    /\ [](pc = "done" /\ PassedValidation /\ HasUnimplementedElement
             => status.code = "EvalError" /\ timestamp = Unwritten)
    /\ [][pc = "parse_loop" /\ pc' = "parse_loop"
              /\ ElementAtCursor.type \in UnimplementedTypes
             => /\ InputAtCursor # <<>>
                /\ error_in_parsing' /\ ~Consumed
                /\ timestamp_str_parsed_length' = timestamp_str_parsed_length]_vars
    /\ [](pc = "done" /\ PassedValidation /\ error_in_parsing
              /\ ElementAtCursor.type \in UnimplementedTypes
             => status = FailedToParseAt(timestamp_str_parsed_length, ElementAtCursor))

\* "-MM" passed validation and "-07" failed at MM, at offset 1.
C25_Witness ==
    /\ pc = "done"
    /\ format_string = <<"-", "M", "M">>
    /\ timestamp_string = <<"-", "0", "7">>
    /\ status = MakeEvalError(<<"Failed to parse input timestamp string at ", "1",
                                " with format element ", "'", "MM", "'">>)

\* "AMHH" passed validation and "AM07" failed at AM, at offset 0.
C25_WitnessMeridian ==
    /\ pc = "done"
    /\ format_string = <<"A", "M", "H", "H">>
    /\ timestamp_string = <<"A", "M", "0", "7">>
    /\ status = FailedToParseAt(0, format_elements[1])

\* The keyword formats hold each of the eighteen types.
C25_WitnessEveryType ==
    /\ pc = "done"
    /\ format_string = <<"P", ".", "M", ".", "H", "H", "1", "2">>
    /\ TypesOf(format_elements) = <<"kPMWithDots", "kHH12">>
    /\ UnimplementedTypes =
           UNION {{GetDateTimeFormatElements(k).value[i].type :
                      i \in 1..Len(GetDateTimeFormatElements(k).value)} :
                  k \in UnimplementedKeywords}

\* The first element of the format that is no empty quoted literal, the first
\* that must consume input, is a Whitespace element.
FirstConsumingIsWhitespace ==
    \E i \in 1..Len(format_elements) :
        /\ format_elements[i].type = "kWhitespace"
        /\ \A j \in 1..(i - 1) : IsEmptyQuoted(format_elements[j])

\* C26: the parser consumes all the leading Unicode whitespace of the input
\* before it matches the first element, so a format whose first element that
\* must consume input is a Whitespace element (" YYYY") fails to parse for
\* every input string, inputs that begin with whitespace included: at the
\* Whitespace element, with "Failed to parse input timestamp string" when input
\* is left after its leading whitespace and with "Entire timestamp string has
\* been parsed" when none is.
C26_LeadingWhitespace ==
    /\ pc = "parse_loop" /\ processed_format_element_count = 0
           => /\ timestamp_str_parsed_length = WhitespacePrefix(timestamp_string)
              /\ WhitespacePrefix(InputAtCursor) = 0
    /\ pc = "done" /\ PassedValidation /\ FirstConsumingIsWhitespace
           => /\ status.code = "EvalError"
              /\ timestamp = Unwritten
              /\ ElementAtCursor.type = "kWhitespace"
              /\ status = IF InputAtCursor # <<>>
                          THEN FailedToParseAt(WhitespacePrefix(timestamp_string),
                                               ElementAtCursor)
                          ELSE EntireStringParsedBefore(ElementAtCursor)

\* " 2" failed with " YYYY" at the digit.
C26_Witness ==
    /\ pc = "done"
    /\ format_string = <<" ", "Y", "Y", "Y", "Y">>
    /\ timestamp_string = <<" ", "2">>
    /\ timestamp_str_parsed_length = 1
    /\ status = FailedToParseAt(1, format_elements[1])

\* " " failed with " ": the input was over before the Whitespace element.
C26_WitnessOnlyWhitespace ==
    /\ pc = "done"
    /\ format_string = <<" ">>
    /\ timestamp_string = <<" ">>
    /\ status = EntireStringParsedBefore(format_elements[1])

\* A no-break space and a tab before "2" failed with an empty quoted literal
\* and " YYYY".
C26_WitnessAfterEmptyQuoted ==
    /\ pc = "done"
    /\ format_string = <<"\"", "\"", " ", "Y", "Y", "Y", "Y">>
    /\ timestamp_string = <<"0xC2", "0xA0", "\t", "2">>
    /\ status = FailedToParseAt(3, format_elements[2])

\* "2 " was parsed with "YYYY ": a Whitespace element that is not the first.
C26_WitnessTrailing ==
    /\ pc = "done"
    /\ format_string = <<"Y", "Y", "Y", "Y", " ">>
    /\ timestamp_string = <<"2", " ">>
    /\ status = OkStatus

\* ParseTimeWithFormatElements was called and has returned.
ParserReturned ==
    /\ pc = "done"
    /\ entry = "CastStringToTimestamp"
    /\ tokenizer_status = OkStatus
    /\ ValidateDateTimeFormatElements(format_elements, <<>>, "TIMESTAMP") = OkStatus

HasYearElement == \E i \in 1..Len(format_elements) : format_elements[i].category = "kYear"

\* C27: no format element changes month, day, hour, minute or second during
\* parsing: every successful result of CastStringToTimestamp is the instant at
\* 00:00:00 on day 1 of the month of the current instant in the default zone,
\* in the year the year element set (the current year without one); the check
\* of the civil-time normalization passes always and "Invalid result from year,
\* month, day values after parsing" is never returned.
C27_Frame ==
    /\ [][pc = "parse_loop" => month' = month /\ mday' = mday]_vars
    /\ [](pc = "parse_loop" \/ ParserReturned
             => /\ month = cs_now.month
                /\ mday = 1
                /\ CivilSecond(year, month, mday) = CivilTime(year, month, mday, 0, 0, 0, 0)
                /\ HasYearElement \/ year = cs_now.year)
    /\ [](ParserReturned
             => /\ status # InvalidYearMonthDay
                /\ status = OkStatus
                       => timestamp = CivilTime(year, cs_now.month, 1, 0, 0, 0, 0))

\* "22-" was parsed with YYYY, an empty quoted literal and "-" on 4 July 2000,
\* 12:00: the result is 1 July of the year 22, 00:00:00.
C27_Witness ==
    /\ ParserReturned
    /\ status = OkStatus
    /\ format_string = <<"Y", "Y", "Y", "Y", "\"", "\"", "-">>
    /\ timestamp_string = <<"2", "2", "-">>
    /\ cs_now = CivilTime(2000, 7, 4, 12, 0, 0, 0)
    /\ timestamp = CivilTime(22, 7, 1, 0, 0, 0, 0)

\* "-" was parsed with "-" and no year element: 1 July 2000, 00:00:00.
C27_WitnessNoYear ==
    /\ ParserReturned
    /\ status = OkStatus
    /\ ~HasYearElement
    /\ timestamp_string = <<"-">>
    /\ cs_now = CivilTime(2000, 7, 4, 12, 0, 0, 0)
    /\ timestamp = CivilTime(2000, 7, 1, 0, 0, 0, 0)

\* The status is one of the parser's two errors that name a format element.
NamesElement(st) ==
    /\ st.code = "EvalError"
    /\ st.msg[1] \in {"Failed to parse input timestamp string at ",
                      "Entire timestamp string has been parsed before dealing with"}

\* C28: throughout the parse loop the input cursor never exceeds the length of
\* the input and the count of processed elements never exceeds the number of
\* elements, neither ever decreases, and whenever the parser returns an error
\* that names a format element ("Failed to parse ..." or "Entire timestamp
\* string has been parsed ...") the index that names it is strictly less than
\* the number of elements.
C28_Bounds ==
    /\ [](/\ timestamp_str_parsed_length \in 0..Len(timestamp_string)
          /\ processed_format_element_count \in 0..Len(format_elements))
    /\ [][pc = "parse_loop" =>
             /\ timestamp_str_parsed_length' >= timestamp_str_parsed_length
             /\ processed_format_element_count' >= processed_format_element_count]_vars
    /\ [](pc = "parse_loop" /\ error_in_parsing
             => processed_format_element_count < Len(format_elements))
    /\ [](ParserReturned /\ NamesElement(status)
             => /\ processed_format_element_count < Len(format_elements)
                /\ status \in {FailedToParseAt(timestamp_str_parsed_length, ElementAtCursor),
                               EntireStringParsedBefore(ElementAtCursor)})

\* "-" and a no-break space failed with "-  -" at the last element, after the
\* whole input:
\* the cursor at the length of the input, two of three elements processed.
C28_Witness ==
    /\ ParserReturned
    /\ format_string = <<"-", " ", " ", "-">>
    /\ timestamp_string = <<"-", "0xC2", "0xA0">>
    /\ timestamp_str_parsed_length = 3
    /\ processed_format_element_count = 2
    /\ status = EntireStringParsedBefore(format_elements[3])

\* "-2" failed with "- -" at the Whitespace element: the cursor and the count
\* stayed where they were.
C28_WitnessFailed ==
    /\ ParserReturned
    /\ format_string = <<"-", " ", "-">>
    /\ timestamp_string = <<"-", "2">>
    /\ timestamp_str_parsed_length = 1
    /\ processed_format_element_count = 1
    /\ status = FailedToParseAt(1, format_elements[2])

\* An iteration of the tokenizer's loop pushed an element.
TokenizerPushes == pc = "tokenize" /\ format_elements' # format_elements

\* C29: tokenization and parsing always terminate.  Every element that
\* GetNextDateTimeFormatElement returns has len_in_format_str >= 1, so the
\* cursor of the tokenizer strictly increases on every iteration until the end
\* of the format string or an error; every iteration of the parse loop
\* increments the count of processed elements or sets the error flag that ends
\* the loop; and the call returns.
C29_Terminates ==
    /\ [][TokenizerPushes =>
             /\ Len(format_elements') = Len(format_elements) + 1
             /\ format_elements'[Len(format_elements')].len_in_format_str >= 1
             /\ processed_len' > processed_len]_vars
    /\ [][pc = "tokenize" /\ ~TokenizerPushes =>
             pc' # "tokenize"
             /\ (processed_len >= Len(format_string) \/ status'.code = "EvalError")]_vars
    /\ [][pc = "parse_loop" /\ pc' = "parse_loop" =>
             \/ processed_format_element_count' = processed_format_element_count + 1
             \/ ~error_in_parsing /\ error_in_parsing']_vars
    /\ [][pc = "parse_loop" /\ error_in_parsing => pc' = "done"]_vars
    /\ <>(pc = "done")

\* The format of three elements was tokenized in three iterations and " -2"
\* was parsed in two more, up to the element that failed.
C29_Witness ==
    /\ pc = "done"
    /\ format_string = <<"-", "\"", "\"", "-">>
    /\ LensOf(format_elements) = <<1, 2, 1>>
    /\ processed_len = 4
    /\ timestamp_string = <<" ", "-", "2">>
    /\ processed_format_element_count = 2
    /\ error_in_parsing

\* The tokenizer pushed the literal and returned the error of the quote that
\* is never closed.
C29_WitnessError ==
    /\ pc = "done"
    /\ format_string = <<"-", "\"", "2">>
    /\ LensOf(format_elements) = <<1>>
    /\ processed_len = 1
    /\ status.code # "ok"

-----------------------------------------------------------------------------
(* Properties of the formatter.                                            *)

\* A CastFormat*ToString call has returned OkStatus.
Formatted == pc = "done" /\ status = OkStatus /\ out # UnwrittenString

\* What the strftime-like collaborator renders for a non-literal element.
CollaboratorText(format_element) ==
    FormatTime(FromDateTimeFormatElementToFormatString(format_element, base_time).value,
               base_time)

\* The text of one element in the output: a literal's value as it is, a
\* whitespace run as spaces, the collaborator's text in the element's casing.
CasedText(format_element) ==
    IF format_element.type \in {"kSimpleLiteral", "kDoubleQuotedLiteral"}
    THEN format_element.literal_value
    ELSE IF format_element.type = "kWhitespace"
    THEN [i \in 1..format_element.len_in_format_str |-> " "]
    ELSE CASE format_element.format_casing_type = "kAllLettersUppercase" ->
                  AsciiStrToUpper(CollaboratorText(format_element))
           [] format_element.format_casing_type = "kAllLettersLowercase" ->
                  AsciiStrToLower(CollaboratorText(format_element))
           [] OTHER -> CollaboratorText(format_element)

OnDate20210704 == base_time.year = 2021 /\ base_time.month = 7 /\ base_time.day = 4

\* C18: the output is the concatenation, in element order, of each literal's
\* value unchanged and each non-literal element's rendered text in that
\* element's casing (upper-cased for AllUpper, lower-cased for AllLower, as the
\* collaborator gave it otherwise); for the date 2021-07-04 "YYYY-MM-DD" gives
\* "2021-07-04", "Month" gives "July", "MONTH" gives "JULY", "month" gives "july".
C18_Casing ==
    Formatted =>
        /\ out = Concat([i \in 1..Len(format_elements) |-> CasedText(format_elements[i])])
        /\ OnDate20210704 =>
               /\ format_string = <<"Y", "Y", "Y", "Y", "-", "M", "M", "-", "D", "D">>
                      => out = <<"2", "0", "2", "1", "-", "0", "7", "-", "0", "4">>
               /\ format_string = <<"M", "o", "n", "t", "h">> => out = <<"J", "u", "l", "y">>
               /\ format_string = <<"M", "O", "N", "T", "H">> => out = <<"J", "U", "L", "Y">>
               /\ format_string = <<"m", "o", "n", "t", "h">> => out = <<"j", "u", "l", "y">>

\* CastFormatDateToString("MONTH", 2021-07-04) gave "JULY".
C18_Witness ==
    /\ Formatted
    /\ entry = "CastFormatDateToString"
    /\ OnDate20210704
    /\ format_string = <<"M", "O", "N", "T", "H">>
    /\ out = <<"J", "U", "L", "Y">>

\* A lower-case element next to a quoted literal with capitals.
C18_WitnessLiteral ==
    /\ Formatted
    /\ OnDate20210704
    /\ format_string = <<"m", "o", "n", "t", "h", "\"", "M", "o", "n", "\"">>
    /\ out = <<"j", "u", "l", "y", "M", "o", "n">>

\* CastFormatDateToString("YYYY-MM-DD", 2021-07-04) gave "2021-07-04".
C18_WitnessDate ==
    /\ Formatted
    /\ entry = "CastFormatDateToString"
    /\ format_string = <<"Y", "Y", "Y", "Y", "-", "M", "M", "-", "D", "D">>
    /\ out = <<"2", "0", "2", "1", "-", "0", "7", "-", "0", "4">>

\* The day name of 2021-07-04 in the casing of "Dy", after the month.
C18_WitnessDay ==
    /\ Formatted
    /\ OnDate20210704
    /\ format_string = <<"M", "o", "n", "t", "h", "D", "y">>
    /\ out = <<"J", "u", "l", "y", "S", "u", "n">>

\* An iteration of the formatter's loop is taken on an element of the type.
RenderStepOn(type) ==
    /\ pc = "render"
    /\ pc' = "render"
    /\ ElementAtCursor.type = type

\* The text the iteration appended to updated_format_string.
Rendered ==
    SubSeq(updated_format_string', Len(updated_format_string) + 1,
           Len(updated_format_string'))

\* What the element at the cursor renders before casing.
RenderedBeforeCasing ==
    FormatTime(FromDateTimeFormatElementToFormatString(ElementAtCursor, base_time).value,
               base_time)

\* The text in the casing of the element at the cursor.
InCasingOfElement(text) ==
    IF ElementAtCursor.format_casing_type = "kAllLettersLowercase"
    THEN AsciiStrToLower(text) ELSE text

\* C24: when formatting, AM and PM each render "AM" if the civil hour is <= 12
\* and "PM" if it is > 12, before casing, and A.M. and P.M. render "A.M." and
\* "P.M." by the same rule: the text depends on the hour alone, not on which of
\* the two the element was written as, and noon (hour 12) renders as AM.
C24_Meridian ==
    /\ [][RenderStepOn("kAM") \/ RenderStepOn("kPM") =>
             LET text == IF base_time.hour <= 12 THEN <<"A", "M">> ELSE <<"P", "M">>
             IN  /\ RenderedBeforeCasing = text
                 /\ Rendered = InCasingOfElement(text)
                 /\ base_time.hour = 12 => AsciiStrToUpper(Rendered) = <<"A", "M">>]_vars
    /\ [][RenderStepOn("kAMWithDots") \/ RenderStepOn("kPMWithDots") =>
             LET text == IF base_time.hour <= 12 THEN <<"A", ".", "M", ".">>
                                                 ELSE <<"P", ".", "M", ".">>
             IN  /\ RenderedBeforeCasing = text
                 /\ Rendered = InCasingOfElement(text)
                 /\ base_time.hour = 12 =>
                        AsciiStrToUpper(Rendered) = <<"A", ".", "M", ".">>]_vars

\* "PMAM" at 12:30 gave "AMAM".
C24_Witness ==
    /\ Formatted
    /\ TypesOf(format_elements) = <<"kPM", "kAM">>
    /\ base_time.hour = 12
    /\ base_time.minute = 30
    /\ out = <<"A", "M", "A", "M">>

\* "AM" at 13:00 gave "PM".
C24_WitnessAfternoon ==
    /\ Formatted
    /\ format_string = <<"A", "M">>
    /\ base_time.hour = 13
    /\ out = <<"P", "M">>

\* "a.m.P.M." at 23:00 gave "p.m.P.M.".
C24_WitnessDots ==
    /\ Formatted
    /\ format_string = <<"a", ".", "m", ".", "P", ".", "M", ".">>
    /\ base_time.hour = 23
    /\ out = <<"p", ".", "m", ".", "P", ".", "M", ".">>

-----------------------------------------------------------------------------
(* Properties of the cast entry points.                                    *)

\* The string arguments of the call.
StringArguments ==
    {format_string}
    \cup (IF entry = "CastStringToTimestamp" THEN {timestamp_string} ELSE {})
    \cup (IF overload \in {"string_view,int64_t*", "string_view,Time*",
                           "int64_t,string_view", "Time,string_view"}
          THEN {timezone_string} ELSE {})

HasMalformedArgument == \E str \in StringArguments : ~IsWellFormedUTF8(str)

\* The call has not gone past the checks of its arguments.
NotTokenized ==
    /\ pc \in {"start", "done"}
    /\ tokenizer_status = NoStatus
    /\ format_elements = <<>>

\* C12: a cast entry point called with a string argument (format string,
\* timestamp string or zone name) that is not well-formed UTF-8 returns an
\* error without tokenizing, parsing or formatting.
C12_Original ==
    HasMalformedArgument =>
        /\ NotTokenized
        /\ pc = "done" => status.code = "EvalError" /\ timestamp = Unwritten
                          /\ out = UnwrittenString

\* The overloads of CastStringToTimestamp that write an absl::Time.
WritesTime == overload \in {"TimeZone,Time*", "string_view,Time*"}

\* C13: a cast call that returned an error has not written the caller's output.
C13_Original ==
    pc = "done" /\ status.code # "OK" => timestamp = Unwritten /\ out = UnwrittenString

\* The element types FromDateTimeFormatElementToFormatString has no case for.
UnsupportedTypes ==
    {"kYCommaYYY", "kIYYY", "kIYY", "kIY", "kI", "kSYYYY", "kYEAR", "kSYEAR", "kRM", "kJ",
     "kCC", "kSCC", "kQ", "kIW", "kWW", "kW", "kAD", "kBC", "kADWithDots", "kBCWithDots",
     "kSP", "kTH", "kSPTH", "kTHSP", "kFM"}

UnsupportedAt == {i \in 1..Len(format_elements) : format_elements[i].type \in UnsupportedTypes}

UnsupportedElementError(format_element) ==
    MakeEvalError(<<"Unsupported format element ">> \o ElementToString(format_element))

\* The call returned "Unsupported format element E" for an element E of the
\* format and wrote no output.
FailedAsUnsupported ==
    /\ \E i \in 1..Len(format_elements) : status = UnsupportedElementError(format_elements[i])
    /\ out = UnwrittenString

TimestampToStringReturned == pc = "done" /\ entry = "CastFormatTimestampToString"

\* C30 as stated: CastFormatTimestampToString fails with "Unsupported format
\* element E", writing no output, exactly when the format tokenizes and has an
\* element of a type without a case in the formatter.
C30_Original ==
    TimestampToStringReturned =>
        (FailedAsUnsupported <=> tokenizer_status = OkStatus /\ UnsupportedAt # {})

\* C30: CastFormatTimestampToString never runs a structural validation; it
\* fails with "Unsupported format element E", writing no output, exactly when
\* the format tokenizes, the instant is valid and the format has an element of
\* a type without a case in the formatter, E being the first such element;
\* with an instant that is not valid it fails with "Invalid timestamp value"
\* whatever the elements are; with a valid instant and a tokenized format of
\* elements that all have a case it succeeds and writes the output; and
\* ValidateFormatStringForFormatting for TIMESTAMP returns ok for every format
\* that tokenizes.
C30_Unsupported ==
    /\ entry = "CastFormatTimestampToString" => pc # "validate"
    /\ TimestampToStringReturned =>
           /\ FailedAsUnsupported <=>
                  tokenizer_status = OkStatus /\ IsValidTime(base_time) /\ UnsupportedAt # {}
           /\ FailedAsUnsupported =>
                  status = UnsupportedElementError(format_elements[Least(UnsupportedAt)])
           /\ tokenizer_status = OkStatus /\ ~IsValidTime(base_time) =>
                  /\ status = MakeEvalError(<<"Invalid timestamp value: ", base_time>>)
                  /\ out = UnwrittenString
           /\ tokenizer_status = OkStatus /\ IsValidTime(base_time) /\ UnsupportedAt = {} =>
                  status = OkStatus /\ out # UnwrittenString
    /\ pc = "done" /\ entry = "ValidateFormatStringForFormatting"
           /\ tokenizer_status = OkStatus => status = OkStatus

\* "MMQ" with a valid instant: MM was rendered, Q has no case.
C30_Witness ==
    /\ TimestampToStringReturned
    /\ format_string = <<"M", "M", "Q">>
    /\ IsValidTime(base_time)
    /\ processed_format_element_count = 1
    /\ updated_format_string = <<"0", "7">>
    /\ status = MakeEvalError(<<"Unsupported format element ", "'", "Q", "'">>)
    /\ out = UnwrittenString

\* "THQ" names TH, the first of the two elements without a case.
C30_WitnessFirst ==
    /\ TimestampToStringReturned
    /\ format_string = <<"T", "H", "Q">>
    /\ status = MakeEvalError(<<"Unsupported format element ", "'", "TH", "'">>)

\* "Q" with the instant after the year 9999.
C30_WitnessInvalidInstant ==
    /\ TimestampToStringReturned
    /\ format_string = <<"Q">>
    /\ tokenizer_status = OkStatus
    /\ ~IsValidTime(base_time)
    /\ status.msg[1] = "Invalid timestamp value: "

\* ValidateFormatStringForFormatting accepted "MMQ" for TIMESTAMP.
C30_WitnessValidated ==
    /\ pc = "done"
    /\ entry = "ValidateFormatStringForFormatting"
    /\ format_string = <<"M", "M", "Q">>
    /\ status = OkStatus

\* "HH24-" with a valid instant and a zone name was formatted.
C30_WitnessSucceeded ==
    /\ TimestampToStringReturned
    /\ overload = "Time,string_view"
    /\ format_string = <<"H", "H", "2", "4", "-">>
    /\ status = OkStatus
    /\ out = <<"1", "3", "-">>

-----------------------------------------------------------------------------
(* The round trip.                                                         *)

\* The parse of the formatted string has returned, and the format had passed
\* validation for parsing (formatting a timestamp validates no element).
RoundTripReturned ==
    /\ pc = "done"
    /\ entry = "CastStringToTimestamp"
    /\ out # UnwrittenString
    /\ timestamp_string = out
    /\ ValidateDateTimeFormatElements(format_elements, <<>>, "TIMESTAMP") = OkStatus

HasTypeIn(types) == \E i \in 1..Len(format_elements) : format_elements[i].type \in types

HasCategoryOf(category) ==
    \E i \in 1..Len(format_elements) : format_elements[i].category = category

\* The instant parsed is the instant formatted in every field the format has
\* an element for.
SameAtResolution ==
    /\ timestamp # Unwritten
    /\ HasCategoryOf("kYear") => timestamp.year = base_time.year
    /\ HasCategoryOf("kMonth") => timestamp.month = base_time.month
    /\ HasCategoryOf("kDay") => timestamp.day = base_time.day
    /\ HasCategoryOf("kHour") => timestamp.hour = base_time.hour
    /\ HasCategoryOf("kMinute") => timestamp.minute = base_time.minute
    /\ HasCategoryOf("kSecond") => timestamp.second = base_time.second

\* C17 as stated: for a format valid for parsing and formatting without RR,
\* Y,YYY, Y, YY and YYY, parsing the formatted string succeeds and gives the
\* instant at the resolution of the format.
C17_Original ==
    RoundTripReturned /\ ~HasTypeIn({"kRR", "kYCommaYYY", "kY", "kYY", "kYYY"})
        => status = OkStatus /\ SameAtResolution

\* The formats whose elements the parser implements and matches again: simple
\* literals, whitespace not at the start, and YYYY or RRRR.
YearAndSeparators ==
    /\ \A i \in 1..Len(format_elements) :
           format_elements[i].type \in {"kSimpleLiteral", "kWhitespace", "kYYYY", "kRRRR"}
    /\ format_elements # <<>> => format_elements[1].type # "kWhitespace"

\* The non-literal element types the loop of the parser has a case for.
ImplementedForParsing == {"kYYYY", "kRRRR", "kYYY", "kYY", "kY", "kRR", "kYCommaYYY"}

\* C17: for a valid instant t and a format valid for parsing made of simple
\* literals, whitespace (not as its first element) and at most one of YYYY and
\* RRRR, parsing the string produced by formatting t succeeds and gives the
\* year of t (the month of the current instant, the first day, midnight); for
\* a format with a non-literal element the parser does not implement (MM, DD,
\* HH24, ...) parsing the formatted string fails.
C17_RoundTrip ==
    RoundTripReturned =>
        /\ YearAndSeparators =>
               /\ status = OkStatus
               /\ SameAtResolution
               /\ timestamp = CivilTime(IF HasCategoryOf("kYear") THEN base_time.year
                                                                   ELSE cs_now.year,
                                        cs_now.month, 1, 0, 0, 0, 0)
        /\ (\E i \in 1..Len(format_elements) :
               /\ format_elements[i].category # "kLiteral"
               /\ format_elements[i].type \notin ImplementedForParsing)
               => status.code = "EvalError" /\ timestamp = Unwritten

\* 2021-07-04 was formatted with "YYYY-" and parsed back to the year 2021.
C17_Witness ==
    /\ RoundTripReturned
    /\ format_string = <<"Y", "Y", "Y", "Y", "-">>
    /\ base_time.year = 2021
    /\ timestamp_string = <<"2", "0", "2", "1", "-">>
    /\ status = OkStatus
    /\ timestamp.year = 2021

\* The year 999 went through "0999".
C17_WitnessPadded ==
    /\ RoundTripReturned
    /\ format_string = <<"R", "R", "R", "R">>
    /\ timestamp_string = <<"0", "9", "9", "9">>
    /\ status = OkStatus
    /\ timestamp.year = 999

\* "YYYY-MM" was formatted and the parse of "2021-07" failed at MM.
C17_WitnessMonth ==
    /\ RoundTripReturned
    /\ format_string = <<"Y", "Y", "Y", "Y", "-", "M", "M">>
    /\ timestamp_string = <<"2", "0", "2", "1", "-", "0", "7">>
    /\ status = FailedToParseAt(5, format_elements[3])

=============================================================================
